---------------------------- MODULE Spec2Model ----------------------------
(***************************************************************************)
(* A model of the text-position mapping and highlight-overlay engine of    *)
(* editable.ts: MatchCollection, NodeIterator, highlight-text,             *)
(* highlight-support, Editable.highlight and binaryCursorSearch.           *)
(***************************************************************************)
EXTENDS Integers, Sequences, FiniteSets, TLC

VARIABLES
    matches,    \* MatchCollection.matches
    host,       \* the editable host element, as a tree of DOM nodes
    bs,         \* the locals of a running binaryCursorSearch
    last,       \* the last operation performed, with its arguments and result
    recent,     \* per highlight id, the range of the most recent highlightRange call
    rs,         \* range-save-restore: boundaryMarkerId and the RangeInfo a caller holds
    mh,         \* MonitoredHighlighting: the timeout handle, and the timers of the window
    ev,         \* an eventable object: its listeners, and the calls a notify made
    ni          \* a NodeIterator over the host, and the nodes it has returned

vars == <<matches, host, bs, last, recent, rs, mh, ev, ni>>

(***************************************************************************)
(* Bounds                                                                  *)
(***************************************************************************)
\* largest index a match of the MatchCollection may use
MaxIndex == 4
\* largest number of matches in one addMatches batch
MaxBatch == 2
\* number of characters of the text of a host
MaxLen == 3
\* largest number of characters of a host searched by binaryCursorSearch
MaxChars == 5
\* largest horizontal coordinate the rendering reports or a caller asks for
MaxX == 2

NoOp == [op |-> "none"]

(***************************************************************************)
(* plugins/highlighting/match-collection.ts                                *)
(***************************************************************************)
Match(s, e) == [startIndex |-> s, endIndex |-> e]

\* pickNext that takes the incoming item first whenever both lists have one
pickNextIncomingFirst(a1, i1, a2, i2) ==
    IF i2 <= Len(a2)
        THEN [item |-> a2[i2], i1 |-> i1, i2 |-> i2 + 1]
    ELSE [item |-> a1[i1], i1 |-> i1 + 1, i2 |-> i2]

\* pickNext(state): the next item of the merge walk and the advanced indices.
\* Indices are 1-based here; the caller guarantees one of the lists has an item,
\* so the final `return undefined` branch is not reached.
pickNext(a1, i1, a2, i2) ==
    IF i1 <= Len(a1) /\ i2 <= Len(a2) /\ a1[i1].startIndex < a2[i2].startIndex
        THEN [item |-> a1[i1], i1 |-> i1 + 1, i2 |-> i2]
    ELSE IF i1 <= Len(a1) /\ i2 <= Len(a2)
        THEN [item |-> a2[i2], i1 |-> i1, i2 |-> i2 + 1]
    ELSE IF i1 <= Len(a1)
        THEN [item |-> a1[i1], i1 |-> i1 + 1, i2 |-> i2]
    ELSE [item |-> a2[i2], i1 |-> i1, i2 |-> i2 + 1]

RECURSIVE mergeLoop(_, _, _, _, _, _)
\* the while loop of mergeMatches
mergeLoop(a1, i1, a2, i2, lastEndIndex, output) ==
    IF ~(i1 <= Len(a1) \/ i2 <= Len(a2)) THEN output
    ELSE LET p == pickNext(a1, i1, a2, i2)
             next == p.item
         IN IF next.startIndex >= lastEndIndex
                THEN mergeLoop(a1, p.i1, a2, p.i2, next.endIndex, Append(output, next))
                ELSE mergeLoop(a1, p.i1, a2, p.i2, next.endIndex, output)

mergeMatches(matches1, matches2) == mergeLoop(matches1, 1, matches2, 1, -1, <<>>)

\* MatchCollection.addMatches
addMatches(ms, batch) == IF Len(batch) = 0 THEN ms ELSE mergeMatches(ms, batch)

AllMatches ==
    { Match(p[1], p[2]) : p \in { q \in (0..MaxIndex) \X (0..MaxIndex) : q[1] < q[2] } }

SortedByStart(ms) ==
    \A i \in 1..(Len(ms) - 1) : ms[i].startIndex <= ms[i + 1].startIndex

\* the batches a caller may pass: sorted by startIndex, each startIndex < endIndex
Batches ==
    { b \in UNION { [1..n -> AllMatches] : n \in 0..MaxBatch } : SortedByStart(b) }

\* the operands of an addMatches call, recorded in `last` when the collection
\* and the batch each hold exactly one match (the case of the pair merge)
PairCall(ms, batch) ==
    IF Len(ms) = 1 /\ Len(batch) = 1 THEN <<ms[1], batch[1]>> ELSE <<>>

AddMatches(batch) ==
    /\ matches' = addMatches(matches, batch)
    /\ last' = [op |-> "addMatches", pair |-> PairCall(matches, batch)]
    /\ UNCHANGED <<host, bs, recent, rs, mh, ev, ni>>

\* new MatchCollection()
NewCollection ==
    /\ last.op = "addMatches"
    /\ matches' = <<>>
    /\ last' = [op |-> "new"]
    /\ UNCHANGED <<host, bs, recent, rs, mh, ev, ni>>

NoHost == [t |-> "none"]
NoSearch == [pc |-> "idle"]
NoRange == [start |-> -1, end |-> -1]
NoSave == [pc |-> "idle"]
NoTimers == [pc |-> "idle"]
NoListeners == [pc |-> "idle"]
NoIterator == [pc |-> "idle"]

InitMC ==
    /\ ni = NoIterator
    /\ matches = <<>>
    /\ host = NoHost
    /\ bs = NoSearch
    /\ last = NoOp
    /\ recent = <<>>
    /\ rs = NoSave
    /\ mh = NoTimers
    /\ ev = NoListeners

NextMC ==
    \/ \E batch \in Batches : AddMatches(batch)
    \/ NewCollection

SpecMC == InitMC /\ [][NextMC]_vars

NonOverlapping(ms) ==
    \A i \in 1..(Len(ms) - 1) : ms[i].endIndex <= ms[i + 1].startIndex

\* C1: after any sequence of addMatches calls with sorted batches, the stored
\* matches are sorted by startIndex and every two consecutive stored matches
\* a, b satisfy a.endIndex <= b.startIndex.
C1_SortedNonOverlapping == SortedByStart(matches) /\ NonOverlapping(matches)

\* C2: one stored match m, one incoming match n with m.startIndex < n.startIndex:
\* the result is [m, n] when n.startIndex >= m.endIndex and [m] otherwise, with
\* the matches stored exactly as given.
C2_PairMerge ==
    (/\ last.op = "addMatches"
     /\ last.pair # <<>>
     /\ last.pair[1].startIndex < last.pair[2].startIndex)
    => LET m == last.pair[1]
           n == last.pair[2]
       IN matches = IF n.startIndex >= m.endIndex THEN <<m, n>> ELSE <<m>>

\* [{0,1}] then [{1,2}]: both kept
C2_WitnessAdjacent ==
    /\ last.op = "addMatches"
    /\ last.pair = <<Match(0, 1), Match(1, 2)>>
    /\ matches = <<Match(0, 1), Match(1, 2)>>

\* C20: one stored match m and one incoming match n with the same startIndex:
\* the walk emits m first, so m is kept and n is dropped.
C20_TieKeepsExisting ==
    (/\ last.op = "addMatches"
     /\ last.pair # <<>>
     /\ last.pair[1].startIndex = last.pair[2].startIndex)
    => matches = <<last.pair[1]>>

(***************************************************************************)
(* The document tree.  A tree value is a record with its children nested;  *)
(* the operations below work on a node store `h` (a sequence of nodes,     *)
(* a node's identity being its index) with parent links, as the DOM does.  *)
(***************************************************************************)
Null == 0

TextNode(d) ==
    [t |-> "text", name |-> "#text", data |-> d, ed |-> "", wid |-> "", hl |-> "",
     id |-> 0, kids |-> <<>>]

\* an element with its data-editable, data-word-id and data-highlight attributes;
\* `id` is n for the id attribute "editable-range-boundary-n", 0 without one
Elem(name, ed, wid, hl, kids) ==
    [t |-> "elem", name |-> name, data |-> <<>>, ed |-> ed, wid |-> wid, hl |-> hl,
     id |-> 0, kids |-> kids]

RECURSIVE AddTree(_, _, _), AddKids(_, _, _)
\* the store `h` with the tree value `tree` added as the last child of `par`
AddTree(h, tree, par) ==
    LET id == Len(h) + 1
        node == [t |-> tree.t, name |-> tree.name, data |-> tree.data, ed |-> tree.ed,
                 wid |-> tree.wid, hl |-> tree.hl, id |-> tree.id, parent |-> par,
                 kids |-> <<>>]
        h1 == Append(h, node)
        h2 == IF par = Null THEN h1 ELSE [h1 EXCEPT ![par].kids = Append(@, id)]
    IN AddKids(h2, tree.kids, id)

AddKids(h, kids, par) ==
    IF kids = <<>> THEN h ELSE AddKids(AddTree(h, Head(kids), par), Tail(kids), par)

\* the node store holding the tree value, its root being node 1
Build(tree) == AddTree(<<>>, tree, Null)

HostId == 1

RECURSIVE ReadTree(_, _)
\* the tree value below node n of the store
ReadTree(h, n) ==
    [t |-> h[n].t, name |-> h[n].name, data |-> h[n].data, ed |-> h[n].ed,
     wid |-> h[n].wid, hl |-> h[n].hl, id |-> h[n].id,
     kids |-> [i \in 1..Len(h[n].kids) |-> ReadTree(h, h[n].kids[i])]]

InsertAt(seq, i, x) == SubSeq(seq, 1, i - 1) \o <<x>> \o SubSeq(seq, i, Len(seq))
RemoveAt(seq, i) == SubSeq(seq, 1, i - 1) \o SubSeq(seq, i + 1, Len(seq))
IndexOf(seq, x) == CHOOSE i \in 1..Len(seq) : seq[i] = x

\* Node.firstChild, Node.nextSibling, Node.parentNode
firstChild(h, n) == IF Len(h[n].kids) = 0 THEN Null ELSE h[n].kids[1]

nextSibling(h, n) ==
    IF h[n].parent = Null THEN Null
    ELSE LET ks == h[h[n].parent].kids
             i == IndexOf(ks, n)
         IN IF i < Len(ks) THEN ks[i + 1] ELSE Null

parentNode(h, n) == h[n].parent

\* ChildNode.remove / Node.removeChild
remove(h, n) ==
    IF h[n].parent = Null THEN h
    ELSE LET p == h[n].parent
         IN [h EXCEPT ![p].kids = RemoveAt(@, IndexOf(@, n)), ![n].parent = Null]

\* Node.insertBefore(node, ref): node is moved from where it was
insertBefore(h, par, node, ref) ==
    LET Insert(h1) ==
            [h1 EXCEPT ![par].kids =
                           InsertAt(@, IF ref = Null THEN Len(@) + 1 ELSE IndexOf(@, ref), node),
                       ![node].parent = par]
    IN Insert(remove(h, node))

\* Text.splitText(offset): the new node, with the tail of the data, is Len(h) + 1
splitText(h, n, offset) ==
    LET d == h[n].data
        new == [h[n] EXCEPT !.data = SubSeq(d, offset + 1, Len(d)), !.parent = Null]
        h1 == Append([h EXCEPT ![n].data = SubSeq(d, 1, offset)], new)
    IN insertBefore(h1, h[n].parent, Len(h) + 1, nextSibling(h, n))

RECURSIVE normalize(_, _), normalizeKids(_, _, _, _)
\* Node.normalize(): empty text nodes are removed and adjacent ones joined
normalize(h, n) == normalizeKids(h, n, h[n].kids, <<>>)

\* rest: the children still to visit; out: the children kept so far
normalizeKids(h, n, rest, out) ==
    IF rest = <<>> THEN [h EXCEPT ![n].kids = out]
    ELSE LET k == Head(rest)
         IN IF h[k].t = "text"
                THEN IF h[k].data = <<>>
                        THEN normalizeKids([h EXCEPT ![k].parent = Null], n, Tail(rest), out)
                     ELSE IF out # <<>> /\ h[out[Len(out)]].t = "text"
                        THEN normalizeKids(
                                 [h EXCEPT ![out[Len(out)]].data = @ \o h[k].data,
                                           ![k].parent = Null],
                                 n, Tail(rest), out)
                     ELSE normalizeKids(h, n, Tail(rest), Append(out, k))
                ELSE normalizeKids(normalize(h, k), n, Tail(rest), Append(out, k))

RECURSIVE Descendants(_, _), DescendantsOfAll(_, _)
\* the descendants of n in document order
Descendants(h, n) == DescendantsOfAll(h, h[n].kids)

DescendantsOfAll(h, ks) ==
    IF ks = <<>> THEN <<>>
    ELSE <<Head(ks)>> \o Descendants(h, Head(ks)) \o DescendantsOfAll(h, Tail(ks))

\* Element.querySelectorAll('[data-word-id="id"]')
querySelectorAllWordId(h, n, id) ==
    LET Tagged(k) == h[k].t = "elem" /\ h[k].wid = id
    IN SelectSeq(Descendants(h, n), Tagged)

(***************************************************************************)
(* node-iterator.ts                                                        *)
(***************************************************************************)
\* new NodeIterator(root)
NodeIterator(root) ==
    [current |-> root, previous |-> root, nextNode |-> root, root |-> root]

RECURSIVE climbNextPastRoot(_, _, _)
\* the loop without the test for the root
climbNextPastRoot(h, n, root) ==
    IF n = Null THEN Null
    ELSE IF nextSibling(h, n) # Null THEN nextSibling(h, n)
    ELSE climbNextPastRoot(h, parentNode(h, n), root)

RECURSIVE climbNext(_, _, _)
\* the loop shared by getNext and replaceCurrent: the next sibling of n or of its
\* nearest ancestor below the root that has one
climbNext(h, n, root) ==
    IF n = root \/ n = Null THEN Null
    ELSE IF nextSibling(h, n) # Null THEN nextSibling(h, n)
    ELSE climbNext(h, parentNode(h, n), root)

\* NodeIterator.getNext: the iterator after the call; its `current` is the
\* node returned (Null for undefined)
getNext(h, it) ==
    LET n == it.nextNode
    IN IF n = Null THEN [it EXCEPT !.current = Null, !.nextNode = Null]
       ELSE [it EXCEPT !.current = n,
                       !.nextNode =
                           IF firstChild(h, n) # Null /\ h[n].ed # "remove"
                               THEN firstChild(h, n)
                               ELSE climbNext(h, n, it.root)]

\* replaceCurrent that goes on with the children of the replacement
replaceCurrentDescending(h, it, replacement) ==
    [it EXCEPT !.current = replacement, !.previous = Null,
               !.nextNode = IF firstChild(h, replacement) # Null
                                THEN firstChild(h, replacement)
                            ELSE climbNext(h, replacement, it.root)]

\* NodeIterator.replaceCurrent
replaceCurrent(h, it, replacement) ==
    [it EXCEPT !.current = replacement, !.previous = Null,
               !.nextNode = climbNext(h, replacement, it.root)]

(***************************************************************************)
(* highlight-text.ts                                                       *)
(***************************************************************************)
NewLine == "\n"

RECURSIVE getText(_, _, _, _)
\* one round of the loop of getText, `it` being the iterator after getNext
getTextPart(h, it, convertBRs, text) ==
    LET next == it.current
    IN IF next = Null THEN text
       ELSE IF h[next].t = "text" /\ h[next].data # <<>>
           THEN getText(h, it, convertBRs, text \o h[next].data)
       ELSE IF convertBRs /\ h[next].t = "elem" /\ h[next].name = "BR"
           THEN getText(h, it, convertBRs, Append(text, NewLine))
       ELSE getText(h, it, convertBRs, text)

\* getText: the parts handed to the callback, concatenated
getText(h, it, convertBRs, text) == getTextPart(h, getNext(h, it), convertBRs, text)

\* highlightText.extractText(element, convertBRs)
extractText(h, element, convertBRs) == getText(h, NodeIterator(element), convertBRs, <<>>)

\* surroundContents that puts newNode at the end of the host
surroundContentsAtHost(h, textNode, startOffset, endOffset, newNode) ==
    LET d == h[textNode].data
        copy == [h[textNode] EXCEPT !.data = SubSeq(d, startOffset + 1, endOffset),
                                    !.parent = Null]
        extracted == Append([h EXCEPT ![textNode].data =
                                SubSeq(d, 1, startOffset) \o SubSeq(d, endOffset + 1, Len(d))],
                            copy)
    IN insertBefore(
           insertBefore(splitText(extracted, textNode, startOffset), 1, newNode, Null),
           newNode, Len(h) + 1, Null)

\* Range.surroundContents(newNode) of a range set inside one text node:
\* the selected data is extracted into a copy of the text node (Len(h) + 1), the
\* text node is split at the start of the range (the split-off part is
\* Len(h) + 2), newNode is inserted before the split-off part and the copy is
\* appended to newNode.
surroundContents(h, textNode, startOffset, endOffset, newNode) ==
    LET d == h[textNode].data
        copy == [h[textNode] EXCEPT !.data = SubSeq(d, startOffset + 1, endOffset),
                                    !.parent = Null]
        extracted == Append([h EXCEPT ![textNode].data =
                                SubSeq(d, 1, startOffset) \o SubSeq(d, endOffset + 1, Len(d))],
                            copy)
    IN insertBefore(
           insertBefore(splitText(extracted, textNode, startOffset),
                        h[textNode].parent, newNode, Len(h) + 2),
           newNode, Len(h) + 1, Null)

\* the fix at the end of wrapPortion: an empty text node after the wrapper goes
removeEmptyNext(h, node) ==
    LET next == nextSibling(h, node)
    IN IF next # Null /\ h[next].t = "text" /\ h[next].data = <<>>
           THEN remove(h, next) ELSE h

\* wrapPortion that drops the first character it wraps
wrapPortionLossy(h, portion, stencil) ==
    LET node == Len(h) + 1
        Drop(h2) == [h2 EXCEPT ![h2[node].kids[1]].data = Tail(@)]
    IN [h |-> Drop(surroundContents(
                       Append(h, [stencil EXCEPT !.wid = portion.wordId, !.parent = Null]),
                       portion.element, portion.offset, portion.offset + portion.length,
                       node)),
        node |-> node]

\* highlightText.wrapPortion: the store after wrapping and the wrapper.
\* setEnd before the start of the range moves the start along with it.
wrapPortion(h, portion, stencil) ==
    LET node == Len(h) + 1
        endOffset == portion.offset + portion.length
        startOffset == IF endOffset < portion.offset THEN endOffset ELSE portion.offset
    IN [h |-> removeEmptyNext(
                  surroundContents(
                      Append(h, [stencil EXCEPT !.wid = portion.wordId, !.parent = Null]),
                      portion.element, startOffset, endOffset, node),
                  node),
        node |-> node]

\* wrapMatch that wraps the last portion only
wrapMatchLastOnly(h, portions, stencil) ==
    IF portions = <<>> THEN [h |-> h, node |-> Null]
    ELSE wrapPortion(h, portions[Len(portions)], stencil)

RECURSIVE wrapMatch(_, _, _)
\* highlightText.wrapMatch: the store after wrapping every portion and the last
\* wrapper (Null when there is no portion)
wrapMatch(h, portions, stencil) ==
    IF portions = <<>> THEN [h |-> h, node |-> Null]
    ELSE LET Rest(w) == IF Len(portions) = 1 THEN w
                        ELSE wrapMatch(w.h, Tail(portions), stencil)
         IN Rest(wrapPortion(h, Head(portions), stencil))

Digits == <<"0", "1", "2", "3", "4", "5", "6", "7", "8", "9">>
\* String(n) of a small number
String(n) == IF n < 10 THEN Digits[n + 1] ELSE Digits[(n \div 10) + 1] \o Digits[(n % 10) + 1]

\* currentMatch.id || currentMatch.startIndex, as the attribute value
WordIdOf(match) == IF match.id # "" THEN match.id ELSE String(match.startIndex)

\* the element a marker string is parsed to
Stencil(type) ==
    [t |-> "elem", name |-> "SPAN", data |-> <<>>, ed |-> "ui-unwrap", wid |-> "",
     hl |-> type, id |-> 0, parent |-> Null, kids |-> <<>>]

RECURSIVE highlightLoop(_, _)
\* one round of the while loop of highlightMatches, `it` being the iterator
\* after getNext; st holds the locals of the loop and the store
\* (currentMatchIndex counts from 0 as in the source, ms is indexed from 1)
highlightRound(st, ms, it) ==
    LET next == it.current
        h == st.h
    IN IF next = Null THEN st
       ELSE IF ~(h[next].t = "text" /\ h[next].data # <<>>)
           THEN IF st.countBRs /\ h[next].t = "elem" /\ h[next].name = "BR"
                    THEN highlightLoop([st EXCEPT !.it = it, !.totalOffset = @ + 1], ms)
                    ELSE highlightLoop([st EXCEPT !.it = it], ms)
       ELSE LET currentMatch == st.currentMatch
                nodeText == h[next].data
                nodeEndOffset == st.totalOffset + Len(nodeText)
            IN IF ~(currentMatch.startIndex < nodeEndOffset
                    /\ st.totalOffset < currentMatch.endIndex)
                   THEN highlightLoop([st EXCEPT !.it = it, !.totalOffset = nodeEndOffset], ms)
               ELSE LET isFirstPortion == st.totalOffset <= currentMatch.startIndex
                        isLastPortion == nodeEndOffset >= currentMatch.endIndex
                        wordId == IF isFirstPortion THEN WordIdOf(currentMatch) ELSE st.wordId
                        offset == IF isFirstPortion
                                      THEN currentMatch.startIndex - st.totalOffset ELSE 0
                        length == IF isLastPortion
                                      THEN (currentMatch.endIndex - st.totalOffset) - offset
                                      ELSE Len(nodeText) - offset
                        portion == [element |-> next, offset |-> offset, length |-> length,
                                    isLastPortion |-> isLastPortion, wordId |-> wordId]
                        Wrapped(w) ==
                            highlightLoop(
                                [st EXCEPT !.h = w.h,
                                           !.it = replaceCurrent(w.h, it, w.node),
                                           !.wordId = wordId,
                                           !.portions = <<>>,
                                           !.currentMatchIndex = @ + 1,
                                           !.currentMatch =
                                               IF st.currentMatchIndex + 1 < Len(ms)
                                                   THEN ms[st.currentMatchIndex + 2] ELSE @,
                                           !.totalOffset = st.totalOffset + length + offset],
                                ms)
                    IN IF ~isLastPortion
                           THEN highlightLoop([st EXCEPT !.it = it, !.wordId = wordId,
                                                         !.portions = Append(@, portion),
                                                         !.totalOffset = nodeEndOffset], ms)
                           ELSE Wrapped(wrapMatch(h, Append(st.portions, portion),
                                                  Stencil(currentMatch.marker)))

highlightLoop(st, ms) == highlightRound(st, ms, getNext(st.h, st.it))

\* highlightText.highlightMatches(element, matches, countBRs): the store after it
highlightMatches(h, element, ms, countBRs) ==
    IF Len(ms) = 0 THEN h
    ELSE highlightLoop([h |-> normalize(h, element), it |-> NodeIterator(element),
                        currentMatchIndex |-> 0, currentMatch |-> ms[1],
                        totalOffset |-> 0, portions |-> <<>>,
                        wordId |-> WordIdOf(ms[1]), countBRs |-> countBRs], ms).h

(***************************************************************************)
(* content.ts, highlight-support.ts, core.ts                               *)
(***************************************************************************)
RECURSIVE reparent(_, _, _)
reparent(h, ks, par) ==
    IF ks = <<>> THEN h ELSE reparent([h EXCEPT ![Head(ks)].parent = par], Tail(ks), par)

\* content.unwrap: the children of elem take its place
unwrap(h, elem) ==
    LET par == h[elem].parent
    IN IF par = Null THEN h
       ELSE LET ks == h[par].kids
                i == IndexOf(ks, elem)
                h1 == reparent(h, h[elem].kids, par)
            IN [h1 EXCEPT ![par].kids = SubSeq(ks, 1, i - 1) \o h[elem].kids
                                            \o SubSeq(ks, i + 1, Len(ks)),
                          ![elem].kids = <<>>,
                          ![elem].parent = Null]

RECURSIVE unwrapAll(_, _)
unwrapAll(h, elems) ==
    IF elems = <<>> THEN h ELSE unwrapAll(unwrap(h, Head(elems)), Tail(elems))

\* highlightSupport.hasHighlight
hasHighlight(h, editableHost, highlightId) ==
    Len(querySelectorAllWordId(h, editableHost, highlightId)) # 0

\* removeHighlight that leaves the text nodes as the unwrapping left them
removeHighlightNoNormalize(h, editableHost, highlightId) ==
    unwrapAll(h, querySelectorAllWordId(h, editableHost, highlightId))

\* highlightSupport.removeHighlight
removeHighlight(h, editableHost, highlightId) ==
    normalize(unwrapAll(h, querySelectorAllWordId(h, editableHost, highlightId)),
              editableHost)

\* highlightRange that keeps the wrappers of an earlier call with the same id
highlightRangeKeeping(h, editableHost, highlightId, startIndex, endIndex, type) ==
    IF extractText(h, editableHost, FALSE) = <<>> THEN [h |-> h, ret |-> -1]
    ELSE [h |-> highlightMatches(h, editableHost,
                    <<[startIndex |-> startIndex, endIndex |-> endIndex,
                       id |-> highlightId, marker |-> type]>>, FALSE),
          ret |-> startIndex]

\* highlightSupport.highlightRange: the store after it and the value returned
highlightRange(h, editableHost, highlightId, startIndex, endIndex, type) ==
    LET Apply(h1) ==
            IF extractText(h1, editableHost, FALSE) = <<>> THEN [h |-> h1, ret |-> -1]
            ELSE [h |-> highlightMatches(h1, editableHost,
                            <<[startIndex |-> startIndex, endIndex |-> endIndex,
                               id |-> highlightId, marker |-> type]>>, FALSE),
                  ret |-> startIndex]
    IN Apply(IF hasHighlight(h, editableHost, highlightId)
                 THEN removeHighlight(h, editableHost, highlightId) ELSE h)

\* a value of a textRange key: a number, or something that is not a number
Num(n) == [typeof |-> "number", v |-> n]
Undefined == [typeof |-> "undefined"]

\* where a call runs: config.logErrors, and whether the global scope binds the
\* name `global` (Node and the test runner do, a browser does not)
Environments == [logErrors : BOOLEAN, hasGlobal : BOOLEAN]

\* the environment of the test runner
TestEnvironment == [logErrors |-> TRUE, hasGlobal |-> TRUE]

\* error(...args) ends with a ReferenceError when it gets to read global.console
\* and `global` is not bound; otherwise it logs, or does nothing
errorThrows(env) == env.logErrors /\ ~env.hasGlobal

\* the result of a call that returned
Returned(r) == [h |-> r.h, ret |-> r.ret, threw |-> FALSE]

\* the result of a call that ended with an exception
Thrown(h) == [h |-> h, ret |-> 0, threw |-> TRUE]

\* Editable.highlight, called with a textRange
EditableHighlight(h, editableHost, highlightId, textRange, env) ==
    IF textRange.start.typeof # "number" \/ textRange.end.typeof # "number"
        THEN IF errorThrows(env) THEN Thrown(h) ELSE Returned([h |-> h, ret |-> -1])
    ELSE IF textRange.start = textRange.end
        THEN IF errorThrows(env) THEN Thrown(h) ELSE Returned([h |-> h, ret |-> -1])
    ELSE Returned(highlightRange(h, editableHost, highlightId, textRange.start.v,
                                 textRange.end.v, "comment"))

(***************************************************************************)
(* Hosts                                                                   *)
(***************************************************************************)
Chars == <<"a", "b", "c", "d", "e", "f", "g", "h">>
Txt(i, j) == TextNode(SubSeq(Chars, i, j))
Div(kids) == Elem("DIV", "", "", "", kids)
Br == Elem("BR", "", "", "", <<>>)

\* hosts whose text is the first n characters, divided after the k-th
PlainHosts(n, k) ==
    { Div(<<Txt(1, n)>>),
      Div(<<Txt(1, k), Txt(1, 0), Txt(k + 1, n)>>),
      Div(<<Txt(1, k), Elem("B", "", "", "", <<Txt(k + 1, n)>>)>>),
      Div(<<Txt(1, k), Br, Txt(k + 1, n)>>),
      Div(<<Elem("B", "", "", "", <<Elem("I", "", "", "", <<Txt(1, k)>>)>>), Txt(k + 1, n)>>) }

\* hosts that hold a subtree marked data-editable="remove", and a host without text
OtherHosts(n, k) ==
    { Div(<<Txt(1, k), Elem("SPAN", "remove", "", "", <<TextNode(<<"x">>)>>), Txt(k + 1, n)>>),
      Div(<<Br>>) }

\* hosts that already hold a highlight of another id
WrappedHosts(n, k) ==
    { Div(<<Txt(1, k), Elem("SPAN", "ui-unwrap", "Z", "comment", <<Txt(k + 1, n)>>)>>) }

HighlightIds == {"A", "B"}

\* the spans [start, end) inside a text of n characters
Spans(n) == { q \in (0..n) \X (0..n) : q[1] < q[2] }

\* textRange objects with numbers that are no cursor: every span inside the
\* text, and one that ends behind it
SpanRanges ==
    { [start |-> Num(p[1]), end |-> Num(p[2])] : p \in Spans(MaxLen) }
    \cup { [start |-> Num(0), end |-> Num(MaxLen + 1)] }

\* every textRange object: any two numbers up to one behind the text (spans,
\* cursors, reversed spans), and objects whose keys are no numbers
TextRanges ==
    { [start |-> Num(p[1]), end |-> Num(p[2])] : p \in (0..MaxLen + 1) \X (0..MaxLen + 1) }
    \cup { [start |-> Undefined, end |-> Undefined], [start |-> Num(0), end |-> Undefined] }

RECURSIVE NoInternal(_)
\* true when no node of the tree carries a data-editable attribute
NoInternal(tree) ==
    tree.ed = "" /\ \A i \in 1..Len(tree.kids) : NoInternal(tree.kids[i])

RangeKind(textRange) ==
    IF textRange.start.typeof # "number" \/ textRange.end.typeof # "number" THEN "invalid"
    ELSE IF textRange.start = textRange.end THEN "cursor"
    ELSE "range"

\* the span lies inside the text of the host
InText(range, tree) ==
    /\ 0 <= range.start
    /\ range.start < range.end
    /\ range.end <= Len(extractText(Build(tree), HostId, FALSE))

\* a call of Editable.highlight with a textRange
Highlight(id, textRange, env) ==
    \E r \in {EditableHighlight(Build(host), HostId, id, textRange, env)} :
        /\ host' = ReadTree(r.h, HostId)
        /\ last' = [op |-> "highlight", id |-> id, kind |-> RangeKind(textRange),
                    ret |-> r.ret, threw |-> r.threw,
                    orig |-> IF NoInternal(host) THEN host ELSE NoHost]
        /\ recent' = IF RangeKind(textRange) = "range"
                         THEN [recent EXCEPT ![id] = [start |-> textRange.start.v,
                                                      end |-> textRange.end.v]]
                         ELSE recent
        /\ UNCHANGED <<matches, bs, rs, mh, ev, ni>>

\* a call of Editable.removeHighlight; `orig` is the host before the highlight
\* this call removes, when that highlight was the last operation, was given a
\* span inside the text and found a host without internal-marked nodes
RemoveHighlight(id) ==
    /\ host' = ReadTree(removeHighlight(Build(host), HostId, id), HostId)
    /\ last' = [op |-> "removeHighlight", id |-> id, kind |-> "", ret |-> 0,
                threw |-> FALSE,
                orig |-> IF /\ last.op = "highlight"
                            /\ last.kind = "range"
                            /\ last.id = id
                            /\ last.orig # NoHost
                            /\ InText(recent[id], last.orig)
                             THEN last.orig ELSE NoHost]
    /\ recent' = [recent EXCEPT ![id] = NoRange]
    /\ UNCHANGED <<matches, bs, rs, mh, ev, ni>>

\* two highlight ids, spans as ranges (calls that do not get to error())
InitHL ==
    /\ ni = NoIterator
    /\ host \in PlainHosts(MaxLen, MaxLen \div 2) \cup OtherHosts(MaxLen, MaxLen \div 2)
    /\ matches = <<>>
    /\ bs = NoSearch
    /\ last = NoOp
    /\ recent = [id \in HighlightIds |-> NoRange]
    /\ rs = NoSave
    /\ mh = NoTimers
    /\ ev = NoListeners

NextHL ==
    \/ \E id \in HighlightIds, textRange \in SpanRanges :
           Highlight(id, textRange, TestEnvironment)
    \/ \E id \in HighlightIds : RemoveHighlight(id)

SpecHL == InitHL /\ [][NextHL]_vars

\* one highlight id, every kind of textRange, every environment
InitEH ==
    /\ ni = NoIterator
    /\ host \in UNION { PlainHosts(MaxLen, k) \cup OtherHosts(MaxLen, k)
                            \cup WrappedHosts(MaxLen, k) : k \in 1..(MaxLen - 1) }
    /\ matches = <<>>
    /\ bs = NoSearch
    /\ last = NoOp
    /\ recent = [id \in {"A"} |-> NoRange]
    /\ rs = NoSave
    /\ mh = NoTimers
    /\ ev = NoListeners

NextEH ==
    \/ \E textRange \in TextRanges, env \in Environments : Highlight("A", textRange, env)
    \/ RemoveHighlight("A")

SpecEH == InitEH /\ [][NextEH]_vars

(***************************************************************************)
(* What a tree shows: its characters in document order, each with the      *)
(* highlight ids of the wrappers around it.  Subtrees marked               *)
(* data-editable="remove" show nothing.                                    *)
(***************************************************************************)
RECURSIVE Shown(_, _, _), ShownKids(_, _, _)
Shown(tree, countBRs, ids) ==
    IF tree.t = "text" THEN [i \in 1..Len(tree.data) |-> [c |-> tree.data[i], ids |-> ids]]
    ELSE IF tree.name = "BR" THEN (IF countBRs THEN <<[c |-> NewLine, ids |-> ids]>> ELSE <<>>)
    ELSE IF tree.ed = "remove" THEN <<>>
    ELSE ShownKids(tree.kids, countBRs, IF tree.wid = "" THEN ids ELSE ids \cup {tree.wid})

ShownKids(kids, countBRs, ids) ==
    IF kids = <<>> THEN <<>>
    ELSE Shown(Head(kids), countBRs, ids) \o ShownKids(Tail(kids), countBRs, ids)

\* the positions (from 0) of the characters inside a wrapper of the id
Covered(tree, countBRs, id) ==
    LET sh == Shown(tree, countBRs, {})
    IN { i - 1 : i \in { j \in 1..Len(sh) : id \in sh[j].ids } }

\* the text inside the wrappers of the id
WrappedText(tree, id) ==
    LET sh == Shown(tree, FALSE, {})
        Inside(x) == id \in x.ids
        keep == SelectSeq(sh, Inside)
    IN [i \in 1..Len(keep) |-> keep[i].c]

RECURSIVE HasWrapper(_, _)
\* an element tagged with the id is in the tree
HasWrapper(tree, id) ==
    \/ (tree.t = "elem" /\ tree.wid = id)
    \/ \E i \in 1..Len(tree.kids) : HasWrapper(tree.kids[i], id)

RECURSIVE WrappersInside(_, _, _, _)
\* every element tagged with id b has an ancestor tagged with id a
WrappersInside(tree, b, a, underA) ==
    /\ (tree.t = "elem" /\ tree.wid = b) => underA
    /\ \A i \in 1..Len(tree.kids) :
           WrappersInside(tree.kids[i], b, a, underA \/ (tree.t = "elem" /\ tree.wid = a))

RECURSIVE Normalized(_)
\* no empty text node and no two adjacent text nodes in the tree
Normalized(tree) ==
    /\ \A i \in 1..Len(tree.kids) :
           /\ tree.kids[i].t = "text" => tree.kids[i].data # <<>>
           /\ Normalized(tree.kids[i])
    /\ \A i \in 1..(Len(tree.kids) - 1) :
           ~(tree.kids[i].t = "text" /\ tree.kids[i + 1].t = "text")

\* the lists of matches handed to highlightMatches: one match, or two in any
\* order and position, each a span of a text of MaxLen + 1 characters (the
\* text of a host with a line break counted)
MatchLists ==
    { <<[startIndex |-> p[1], endIndex |-> p[2], id |-> "A", marker |-> "spellcheck"]>> :
          p \in Spans(MaxLen + 1) }
    \cup { <<[startIndex |-> p[1], endIndex |-> p[2], id |-> "A", marker |-> "spellcheck"],
             [startIndex |-> q[1], endIndex |-> q[2], id |-> "B", marker |-> "spellcheck"]>> :
               p \in Spans(MaxLen + 1), q \in Spans(MaxLen + 1) }

RECURSIVE HasAnyWrapper(_, _)
HasAnyWrapper(tree, ids) ==
    \/ (tree.t = "elem" /\ tree.wid \in ids)
    \/ \E i \in 1..Len(tree.kids) : HasAnyWrapper(tree.kids[i], ids)

\* a call of highlightText.highlightMatches
HighlightMatches(ms, countBRs) ==
    /\ host' = ReadTree(highlightMatches(Build(host), HostId, ms, countBRs), HostId)
    /\ last' = [op |-> "highlightMatches", ms |-> ms, countBRs |-> countBRs]
    /\ UNCHANGED <<matches, bs, recent, rs, mh, ev, ni>>

\* highlightMatches on hosts that hold no highlight of the ids it is given
InitHM ==
    /\ ni = NoIterator
    /\ host \in UNION { PlainHosts(MaxLen, k) \cup OtherHosts(MaxLen, k)
                            \cup WrappedHosts(MaxLen, k) : k \in 1..(MaxLen - 1) }
    /\ matches = <<>>
    /\ bs = NoSearch
    /\ last = NoOp
    /\ recent = [id \in HighlightIds |-> NoRange]
    /\ rs = NoSave
    /\ mh = NoTimers
    /\ ev = NoListeners

\* highlightMatches is called for a host that holds no highlight of its ids, and
\* once between two removals
NextHM ==
    \/ /\ last.op # "highlightMatches"
       /\ ~HasAnyWrapper(host, HighlightIds)
       /\ \E ms \in MatchLists, countBRs \in BOOLEAN : HighlightMatches(ms, countBRs)
    \/ \E id \in HighlightIds : RemoveHighlight(id)

SpecHM == InitHM /\ [][NextHM]_vars

TextOf(tree) == extractText(Build(tree), HostId, TRUE)

\* C4: highlightRange with a span inside the text of a host without
\* internal-marked nodes, followed by removeHighlight of the same id: the text is
\* as before the highlight, no element tagged with the id is left, and the host
\* is the normalized original.
C4_RoundTrip ==
    (last.op = "removeHighlight" /\ last.orig # NoHost)
    => /\ TextOf(host) = TextOf(last.orig)
       /\ ~HasWrapper(host, last.id)
       /\ host = ReadTree(normalize(Build(last.orig), HostId), HostId)
       /\ Normalized(host)

\* the round trip on a host whose text nodes were not merged
C4_Witness ==
    /\ last.op = "removeHighlight"
    /\ last.orig # NoHost
    /\ ~Normalized(last.orig)
    /\ host # last.orig

\* C6: a highlight B applied to a span that lies inside text wrapped by a highlight
\* A: every wrapper of B is a descendant of a wrapper of A, and the wrappers of A
\* still carry A around the same text.
C6_NestedInside ==
    [][\A a, b \in HighlightIds :
          (/\ a # b
           /\ last'.op = "highlight"
           /\ last'.id = b
           /\ InText(recent'[b], host)
           /\ (recent'[b].start .. recent'[b].end - 1) \subseteq Covered(host, FALSE, a))
          => /\ HasWrapper(host', b)
             /\ WrappersInside(host', b, a, FALSE)
             /\ Covered(host', FALSE, a) = Covered(host, FALSE, a)]_vars

\* B on the very span of A
C6_Witness ==
    /\ last.op = "highlight"
    /\ last.id = "B"
    /\ recent["A"] = recent["B"]
    /\ InText(recent["B"], host)
    /\ HasWrapper(host, "A")
    /\ WrappersInside(host, "B", "A", FALSE)

\* C7: the wrappers of an id cover exactly the span of the most recent
\* highlightRange call for that id.
C7_MostRecentRange ==
    \A id \in DOMAIN recent :
        InText(recent[id], host)
        => Covered(host, FALSE, id) = recent[id].start .. (recent[id].end - 1)

\* an id highlighted again, with another span
C7_Witness ==
    /\ last.op = "highlight"
    /\ last.id = "A"
    /\ recent["A"] = [start |-> 0, end |-> 1]
    /\ recent["B"] = [start |-> 0, end |-> MaxLen]
    /\ Covered(host, FALSE, "A") = {0}

\* C8: Editable.highlight with a cursor or with a textRange without numbers
\* returns -1, throws nothing and leaves the host as it is.
C8_CursorOrInvalidIsNoOp ==
    [][(last'.op = "highlight" /\ last'.kind \in {"cursor", "invalid"})
          => (~last'.threw /\ last'.ret = -1 /\ host' = host /\ recent' = recent)]_vars

\* the part of C8 that the code keeps in every environment: the host is left as
\* it is, and a call that returns returns -1
C8_HostUnchanged ==
    [][(last'.op = "highlight" /\ last'.kind \in {"cursor", "invalid"})
          => /\ host' = host /\ recent' = recent
             /\ ~last'.threw => last'.ret = -1]_vars

\* C9: Editable.highlight with numbers, the end behind the text of the host:
\* no wrapper of the id and -1 returned.
C9_ExceedingRangeNotApplied ==
    (/\ last.op = "highlight"
     /\ last.kind = "range"
     /\ recent[last.id].end > Len(TextOf(host)))
    => (~last.threw /\ last.ret = -1 /\ ~HasWrapper(host, last.id))

\* the part of C9 that the code keeps: no wrapper of the id
C9_ExceedingRangeNoWrapper ==
    (/\ last.op = "highlight"
     /\ last.kind = "range"
     /\ recent[last.id].start < recent[last.id].end
     /\ recent[last.id].end > Len(TextOf(host)))
    => ~HasWrapper(host, last.id)

\* C3: extractText returns the same string before and after highlightMatches,
\* with line breaks counted or not.
C3_TextUnchanged ==
    [][last'.op = "highlightMatches"
          => /\ extractText(Build(host'), HostId, TRUE) = extractText(Build(host), HostId, TRUE)
             /\ extractText(Build(host'), HostId, FALSE) = extractText(Build(host), HostId, FALSE)]_vars

\* two matches wrapped in a host with an inline element
C3_Witness ==
    /\ last.op = "highlightMatches"
    /\ Len(last.ms) = 2
    /\ HasWrapper(host, "A")
    /\ HasWrapper(host, "B")
    /\ \E i \in 1..Len(host.kids) : host.kids[i].name = "B"

RemoveNewLines(text) ==
    LET Visible(c) == c # NewLine IN SelectSeq(text, Visible)

\* C5: one match [s, e) inside the text extracted with the flag of the call: the
\* text inside its wrappers is the substring (s, e) of the extracted text without
\* its newlines.
C5_OffsetsAgree ==
    (/\ last.op = "highlightMatches"
     /\ Len(last.ms) = 1
     /\ last.ms[1].endIndex <= Len(extractText(Build(host), HostId, last.countBRs)))
    => WrappedText(host, last.ms[1].id) =
           RemoveNewLines(SubSeq(extractText(Build(host), HostId, last.countBRs),
                                 last.ms[1].startIndex + 1, last.ms[1].endIndex))

\* C5 for the matches that do not end with the newline of a line break
C5_UnlessEndingOnBreak ==
    (/\ last.op = "highlightMatches"
     /\ Len(last.ms) = 1
     /\ last.ms[1].endIndex <= Len(extractText(Build(host), HostId, last.countBRs))
     /\ extractText(Build(host), HostId, last.countBRs)[last.ms[1].endIndex] # NewLine)
    => WrappedText(host, last.ms[1].id) =
           RemoveNewLines(SubSeq(extractText(Build(host), HostId, last.countBRs),
                                 last.ms[1].startIndex + 1, last.ms[1].endIndex))

(***************************************************************************)
(* util/element.ts, util/binary_search.ts                                  *)
(***************************************************************************)
RECURSIVE getNextTextNode(_, _)
\* NodeIterator.getNextTextNode: the iterator after the call, its `current`
\* being the text node returned (Null for undefined)
getNextTextNodeFrom(h, it) ==
    IF it.current = Null THEN it
    ELSE IF h[it.current].t = "text" /\ h[it.current].data # <<>> THEN it
    ELSE getNextTextNode(h, it)

getNextTextNode(h, it) == getNextTextNodeFrom(h, getNext(h, it))

RECURSIVE spreadTextNodes(_, _, _)
spreadTextNodesFrom(h, it, out) ==
    IF it.current = Null THEN out ELSE spreadTextNodes(h, it, Append(out, it.current))

\* [...iterator] of an iterator made with the method 'getNextTextNode'
spreadTextNodes(h, it, out) == spreadTextNodesFrom(h, getNextTextNode(h, it), out)

\* textNodesUnder(node)
textNodesUnder(h, node) == spreadTextNodes(h, NodeIterator(node), <<>>)

RECURSIVE sumLengths(_, _, _)
sumLengths(h, textNodes, acc) ==
    IF textNodes = <<>> THEN acc
    ELSE sumLengths(h, Tail(textNodes), acc + Len(h[Head(textNodes)].data))

\* getTotalCharCount(element)
getTotalCharCount(h, element) == sumLengths(h, textNodesUnder(h, element), 0)

RECURSIVE findTextNode(_, _, _, _, _)
\* the for loop of getTextNodeAndRelativeOffset, from index i
findTextNode(h, textNodes, absOffset, i, cumulativeOffset) ==
    IF i > Len(textNodes) THEN [node |-> Null, relativeOffset |-> 0]
    ELSE IF absOffset <= cumulativeOffset + Len(h[textNodes[i]].data)
        THEN [node |-> textNodes[i], relativeOffset |-> absOffset - cumulativeOffset]
    ELSE findTextNode(h, textNodes, absOffset, i + 1,
                      cumulativeOffset + Len(h[textNodes[i]].data))

\* getTextNodeAndRelativeOffset({textNodes, absOffset})
getTextNodeAndRelativeOffset(h, textNodes, absOffset) ==
    findTextNode(h, textNodes, absOffset, 1, 0)

\* createRangeAtCharacterOffset throws when no text node holds the offset
createRangeThrows(h, textNodes, offset) ==
    getTextNodeAndRelativeOffset(h, textNodes, offset).node = Null

Abs(x) == IF x < 0 THEN -x ELSE x
Floor2(x) == x \div 2
Ceil2(x) == (x + 1) \div 2

\* moveLeft that steps one below the middle
moveLeftTooFar(data) ==
    [data EXCEPT !.rightLimit = data.currentOffset,
                 !.currentOffset = Floor2(data.currentOffset + data.leftLimit) - 1]

\* moveLeft(data)
moveLeft(data) ==
    [data EXCEPT !.rightLimit = data.currentOffset,
                 !.currentOffset = Floor2(data.currentOffset + data.leftLimit)]

\* moveRight that rounds the middle down
moveRightRoundingDown(data) ==
    [data EXCEPT !.leftLimit = data.currentOffset,
                 !.currentOffset = Floor2(data.currentOffset + data.rightLimit)]

\* moveRight(data)
moveRight(data) ==
    [data EXCEPT !.leftLimit = data.currentOffset,
                 !.currentOffset = Ceil2(data.currentOffset + data.rightLimit)]

Min2(a, b) == IF a < b THEN a ELSE b

\* let safety = 20
Safety == 20

\* binaryCursorSearch up to its loop: the early return for an empty host, or
\* the locals before the first round
StartSearch(positionX, requiredOnFirstLine, requiredOnLastLine) ==
    /\ bs.pc = "idle"
    /\ \E totalCharCount \in {getTotalCharCount(Build(host), HostId)} :
           bs' = [pc |-> IF totalCharCount = 0 THEN "done" ELSE "loop",
                  wasFound |-> FALSE,
                  totalCharCount |-> totalCharCount,
                  positionX |-> positionX,
                  requiredOnFirstLine |-> requiredOnFirstLine,
                  requiredOnLastLine |-> requiredOnLastLine,
                  currentOffset |-> Floor2(totalCharCount),
                  leftLimit |-> 0,
                  rightLimit |-> totalCharCount,
                  offset |-> Floor2(totalCharCount),
                  distance |-> 0,
                  safety |-> Safety,
                  probes |-> 0,
                  neverLeftOfTarget |-> TRUE,
                  alwaysRightOfTarget |-> TRUE,
                  closest |-> MaxX + 1]
    /\ last' = [op |-> "binaryCursorSearch"]
    /\ UNCHANGED <<matches, host, recent, rs, mh, ev, ni>>

\* a round of the while loop whose condition does not test the ceiling
ProbeWithoutCeiling(left, sameTop, sameBottom) ==
    /\ bs.pc = "loop"
    /\ bs.leftLimit < bs.rightLimit
    /\ bs' = IF bs.positionX < left
                 THEN moveLeft([bs EXCEPT !.probes = @ + 1, !.offset = bs.currentOffset])
                 ELSE moveRight([bs EXCEPT !.probes = @ + 1, !.offset = bs.currentOffset])
    /\ UNCHANGED <<matches, host, last, recent, rs, mh, ev, ni>>

\* one round of the while loop; the rendering reports the left coordinate of the
\* probed boundary and whether its top and bottom are those of the host.
\* `probes` counts the rounds; `neverLeftOfTarget` and `alwaysRightOfTarget`
\* record whether positionX >= coords.left, respectively positionX < coords.left,
\* was the answer of every probe so far; `closest` is the smallest
\* |coords.left - positionX| of the probes so far (MaxX + 1 before the first).
Probe(left, sameTop, sameBottom) ==
    /\ bs.pc = "loop"
    /\ bs.leftLimit < bs.rightLimit /\ bs.safety > 0
    /\ \E h \in {Build(host)} :
         IF createRangeThrows(h, textNodesUnder(h, HostId), bs.currentOffset)
             THEN bs' = [bs EXCEPT !.pc = "threw", !.safety = @ - 1, !.probes = @ + 1,
                                   !.offset = bs.currentOffset]
         ELSE \E probed \in {[bs EXCEPT !.safety = @ - 1, !.probes = @ + 1,
                                        !.neverLeftOfTarget = @ /\ ~(bs.positionX < left),
                                        !.alwaysRightOfTarget = @ /\ bs.positionX < left,
                                        !.offset = bs.currentOffset,
                                        !.distance = Abs(left - bs.positionX),
                                        !.closest = Min2(@, Abs(left - bs.positionX))]} :
                  bs' = IF bs.requiredOnFirstLine /\ ~sameTop THEN moveLeft(probed)
                        ELSE IF bs.requiredOnLastLine /\ ~sameBottom THEN moveRight(probed)
                        ELSE IF bs.positionX < left THEN moveLeft(probed)
                        ELSE moveRight(probed)
    /\ UNCHANGED <<matches, host, last, recent, rs, mh, ev, ni>>

\* the probe after the loop and the return
Finish(left) ==
    /\ bs.pc = "loop"
    /\ ~(bs.leftLimit < bs.rightLimit /\ bs.safety > 0)
    /\ \E h \in {Build(host)} :
         IF createRangeThrows(h, textNodesUnder(h, HostId), bs.currentOffset)
             THEN bs' = [bs EXCEPT !.pc = "threw"]
         ELSE \E probed \in {[bs EXCEPT
                                  !.pc = "done", !.wasFound = TRUE,
                                  !.closest = Min2(@, Abs(left - bs.positionX)),
                                  !.neverLeftOfTarget = @ /\ ~(bs.positionX < left),
                                  !.alwaysRightOfTarget = @ /\ bs.positionX < left]} :
                  bs' = IF Abs(left - bs.positionX) < bs.distance
                            THEN [probed EXCEPT !.distance = Abs(left - bs.positionX),
                                                !.offset = bs.currentOffset]
                        ELSE probed
    /\ UNCHANGED <<matches, host, last, recent, rs, mh, ev, ni>>

\* hosts with 0 to MaxChars characters: in one text node, or in two with a
\* subtree marked data-editable="remove" between them
SearchHosts ==
    { Div(<<>>), Div(<<Txt(1, 0)>>), Div(<<Br>>),
      Div(<<Elem("SPAN", "remove", "", "", <<TextNode(<<"x">>)>>)>>) }
    \cup { Div(<<Txt(1, n)>>) : n \in 1..MaxChars }
    \cup { Div(<<Elem("B", "", "", "", <<Txt(1, n \div 2)>>),
                 Elem("SPAN", "remove", "", "", <<TextNode(<<"x">>)>>),
                 Txt((n \div 2) + 1, n)>>) : n \in 2..MaxChars }

InitBS ==
    /\ ni = NoIterator
    /\ host \in SearchHosts
    /\ matches = <<>>
    /\ bs = NoSearch
    /\ last = NoOp
    /\ recent = <<>>
    /\ rs = NoSave
    /\ mh = NoTimers
    /\ ev = NoListeners

NextBS ==
    \/ \E positionX \in 0..MaxX, first \in BOOLEAN, lastLine \in BOOLEAN :
           StartSearch(positionX, first, lastLine)
    \/ \E left \in 0..MaxX, sameTop \in BOOLEAN, sameBottom \in BOOLEAN :
           Probe(left, sameTop, sameBottom)
    \/ \E left \in 0..MaxX : Finish(left)

SpecBS == InitBS /\ [][NextBS]_vars

C10_WitnessEmpty ==
    /\ bs.pc = "done"
    /\ ~bs.wasFound
    /\ Len(host.kids) = 1
    /\ host.kids[1].ed = "remove"

\* C11: the loop of binaryCursorSearch runs at most 20 rounds, whatever the
\* rendering answers; after the 20th the loop condition is false, so that only
\* the final probe and the return are left; no probe ends the search with an
\* exception.
C11_AtMostTwentyProbes ==
    /\ bs.pc # "idle" => bs.probes <= 20
    /\ (bs.pc = "loop" /\ bs.probes = 20) => ~(bs.leftLimit < bs.rightLimit /\ bs.safety > 0)
    /\ bs.pc # "threw"

\* a search that returned after 20 rounds with its interval never collapsed
C11_Witness ==
    /\ bs.pc = "done"
    /\ bs.wasFound
    /\ bs.probes = 20
    /\ bs.leftLimit < bs.rightLimit

C12_WitnessLeft ==
    /\ bs.pc = "done"
    /\ bs.wasFound
    /\ ~bs.requiredOnFirstLine /\ ~bs.requiredOnLastLine
    /\ bs.alwaysRightOfTarget
    /\ bs.totalCharCount = MaxChars
    /\ bs.offset = 0

\* C21: the distance returned by a search that found an offset is not larger
\* than the distance measured at any offset the search probed.
C21_BestSeen ==
    (bs.pc = "done" /\ bs.wasFound) => bs.distance <= bs.closest

\* the markup of a tree: adjacent text nodes read as one, empty ones as nothing
Markup(tree) == ReadTree(normalize(Build(tree), HostId), HostId)

RECURSIVE TextRuns(_, _, _)
\* the non-empty text nodes of a tree in document order, each with the offsets
\* of its first character and behind its last, counted from `from`; a BR takes
\* one offset when countBRs; the last element of the result is the offset
\* behind the tree
TextRuns(tree, countBRs, from) ==
    IF tree.t = "text"
        THEN [runs |-> IF tree.data = <<>> THEN <<>>
                       ELSE <<[start |-> from, end |-> from + Len(tree.data)]>>,
              to |-> from + Len(tree.data)]
    ELSE IF tree.name = "BR"
        THEN [runs |-> <<>>, to |-> IF countBRs THEN from + 1 ELSE from]
    ELSE IF tree.ed = "remove" THEN [runs |-> <<>>, to |-> from]
    ELSE LET Walk[i \in 0..Len(tree.kids)] ==
                 IF i = 0 THEN [runs |-> <<>>, to |-> from]
                 ELSE LET r == TextRuns(tree.kids[i], countBRs, Walk[i - 1].to)
                      IN [runs |-> Walk[i - 1].runs \o r.runs, to |-> r.to]
         IN Walk[Len(tree.kids)]

\* the number of text nodes of the tree that the match overlaps
RunsOverlapped(tree, countBRs, match) ==
    Cardinality({ i \in 1..Len(TextRuns(tree, countBRs, 0).runs) :
                    /\ match.startIndex < TextRuns(tree, countBRs, 0).runs[i].end
                    /\ TextRuns(tree, countBRs, 0).runs[i].start < match.endIndex })

RECURSIVE Wrappers(_, _)
\* the elements of the tree made from the marker of a highlight type
Wrappers(tree, type) ==
    LET Cat[i \in 0..Len(tree.kids)] ==
            IF i = 0 THEN <<>> ELSE Cat[i - 1] \o Wrappers(tree.kids[i], type)
    IN (IF tree.t = "elem" /\ tree.hl = type THEN <<tree>> ELSE <<>>)
       \o Cat[Len(tree.kids)]

\* C24: a single match that is applied gets one wrapper per text node it
\* overlaps, each holding one non-empty text node and nothing else (no line
\* break), and the wrappers hold exactly the characters at the offsets of the
\* match, a line break taking one offset when line breaks are counted.
C24_OneWrapperPerTextRun ==
    [][(/\ last'.op = "highlightMatches"
        /\ Len(last'.ms) = 1
        /\ Wrappers(host', "spellcheck") # <<>>)
       => /\ Len(Wrappers(host', "spellcheck")) =
                 RunsOverlapped(Markup(host), last'.countBRs, last'.ms[1])
          /\ \A i \in 1..Len(Wrappers(host', "spellcheck")) :
                 /\ Len(Wrappers(host', "spellcheck")[i].kids) = 1
                 /\ Wrappers(host', "spellcheck")[i].kids[1].t = "text"
                 /\ Wrappers(host', "spellcheck")[i].kids[1].data # <<>>
          /\ Covered(host', last'.countBRs, last'.ms[1].id) =
                 { o \in last'.ms[1].startIndex..(last'.ms[1].endIndex - 1) :
                     /\ o < Len(Shown(host', last'.countBRs, {}))
                     /\ Shown(host', last'.countBRs, {})[o + 1].c # NewLine }]_vars

\* a match over a line break that is counted: a wrapper before and one behind it
C24_Witness ==
    /\ last.op = "highlightMatches"
    /\ Len(last.ms) = 1
    /\ last.countBRs
    /\ Len(Wrappers(host, "spellcheck")) = 2
    /\ \E i \in 2..(Len(Markup(host).kids) - 1) :
           /\ Markup(host).kids[i].name = "BR"
           /\ Markup(host).kids[i - 1].hl = "spellcheck"
           /\ Markup(host).kids[i + 1].hl = "spellcheck"

\* C25: two matches, sorted and not overlapping: every character inside a
\* wrapper tagged with the id of a match is at an offset of that match.
C25_WrapperCarriesOwnId ==
    [][(/\ last'.op = "highlightMatches"
        /\ Len(last'.ms) = 2
        /\ last'.ms[1].endIndex <= last'.ms[2].startIndex)
       => \A i \in 1..2 :
              Covered(host', last'.countBRs, last'.ms[i].id)
                  \subseteq last'.ms[i].startIndex..(last'.ms[i].endIndex - 1)]_vars

(***************************************************************************)
(* DOM ranges.  A boundary point is [node, offset]; a range is             *)
(* [sc, so, ec, eo] (startContainer, startOffset, endContainer,            *)
(* endOffset).  The container DocumentNode stands for the document, where  *)
(* a range made by createRange() starts and ends.  `d` is a store with one *)
(* live range: [h, r].                                                     *)
(***************************************************************************)
DocumentNode == 0

Bp(node, offset) == [node |-> node, offset |-> offset]
StartOf(r) == Bp(r.sc, r.so)
EndOf(r) == Bp(r.ec, r.eo)
Range(start, end) == [sc |-> start.node, so |-> start.offset, ec |-> end.node, eo |-> end.offset]

\* document.createRange()
createRange == Range(Bp(DocumentNode, 0), Bp(DocumentNode, 0))

\* the index of a node among the children of its parent, counted from 0
Index0(h, n) == IndexOf(h[h[n].parent].kids, n) - 1

RECURSIVE Path(_, _)
\* the child indices leading from the host to node n
Path(h, n) == IF n = HostId \/ h[n].parent = Null THEN <<>> ELSE Append(Path(h, h[n].parent), Index0(h, n))

RECURSIVE CmpPaths(_, _, _)
\* the order of two boundary points given as path \o <<offset>>: -1 before, 0
\* equal, 1 after
CmpPaths(pa, pb, i) ==
    IF i = Len(pa) /\ i = Len(pb)
        THEN IF pa[i] < pb[i] THEN -1 ELSE IF pa[i] > pb[i] THEN 1 ELSE 0
    ELSE IF i = Len(pa) THEN IF pb[i] < pa[i] THEN 1 ELSE -1
    ELSE IF i = Len(pb) THEN IF pa[i] < pb[i] THEN -1 ELSE 1
    ELSE IF pa[i] < pb[i] THEN -1
    ELSE IF pa[i] > pb[i] THEN 1
    ELSE CmpPaths(pa, pb, i + 1)

\* the position of boundary point a relative to b; the start of the document
\* is before every point inside the host
Cmp(h, a, b) ==
    IF a.node = DocumentNode /\ b.node = DocumentNode
        THEN IF a.offset < b.offset THEN -1 ELSE IF a.offset > b.offset THEN 1 ELSE 0
    ELSE IF a.node = DocumentNode THEN -1
    ELSE IF b.node = DocumentNode THEN 1
    ELSE CmpPaths(Append(Path(h, a.node), a.offset), Append(Path(h, b.node), b.offset), 1)

RECURSIVE InclusiveAncestors(_, _)
InclusiveAncestors(h, n) ==
    IF n = Null THEN {} ELSE {n} \cup InclusiveAncestors(h, h[n].parent)

\* Range.commonAncestorContainer
commonAncestorContainer(h, r) ==
    CHOOSE c \in InclusiveAncestors(h, r.sc) \cap InclusiveAncestors(h, r.ec) :
        \A o \in InclusiveAncestors(h, r.sc) \cap InclusiveAncestors(h, r.ec) :
            o \in InclusiveAncestors(h, c)

\* Range.collapsed
collapsed(r) == r.sc = r.ec /\ r.so = r.eo

\* whether two nodes have the same root: nodes of the host and the document
\* have when the host is attached to the document
SameRoot(a, b, attached) == (a = DocumentNode) = (b = DocumentNode) \/ attached

\* Range.setStart / setStartBefore / setStartAfter with the boundary point bp
setStart(h, r, bp, attached) ==
    IF ~SameRoot(bp.node, r.ec, attached) \/ Cmp(h, bp, EndOf(r)) = 1
        THEN Range(bp, bp) ELSE Range(bp, EndOf(r))

\* Range.setEnd / setEndBefore / setEndAfter with the boundary point bp
setEnd(h, r, bp, attached) ==
    IF ~SameRoot(bp.node, r.sc, attached) \/ Cmp(h, bp, StartOf(r)) = -1
        THEN Range(bp, bp) ELSE Range(StartOf(r), bp)

Before(h, n) == Bp(h[n].parent, Index0(h, n))
After(h, n) == Bp(h[n].parent, Index0(h, n) + 1)

\* what the insertion of a child at index `index` of `par` does to a boundary
\* point of a live range
BpAfterInsert(bp, par, index) ==
    IF bp.node = par /\ bp.offset > index THEN Bp(par, bp.offset + 1) ELSE bp

\* node inserted into par before ref, the live range following
insertLive(d, par, node, ref) ==
    LET index == IF ref = Null THEN Len(d.h[par].kids) ELSE Index0(d.h, ref)
    IN [h |-> insertBefore(d.h, par, node, ref),
        r |-> Range(BpAfterInsert(StartOf(d.r), par, index),
                    BpAfterInsert(EndOf(d.r), par, index))]

\* what splitting text node n at offset does to a boundary point of a live
\* range; new is the node split off, index the index of n
BpAfterSplit(bp, n, offset, new, par, index) ==
    IF bp.node = n /\ bp.offset > offset THEN Bp(new, bp.offset - offset)
    ELSE IF bp.node = par /\ bp.offset > index THEN Bp(par, bp.offset + 1)
    ELSE bp

\* Text.splitText(offset), the live range following
splitTextLive(d, n, offset) ==
    [h |-> splitText(d.h, n, offset),
     r |-> Range(BpAfterSplit(StartOf(d.r), n, offset, Len(d.h) + 1, d.h[n].parent,
                              Index0(d.h, n)),
                 BpAfterSplit(EndOf(d.r), n, offset, Len(d.h) + 1, d.h[n].parent,
                              Index0(d.h, n)))]

\* what the removal of node n (child `index` of par) does to a boundary point
BpAfterRemove(h, bp, n, par, index) ==
    IF bp.node # DocumentNode /\ n \in InclusiveAncestors(h, bp.node) THEN Bp(par, index)
    ELSE IF bp.node = par /\ bp.offset > index THEN Bp(par, bp.offset - 1)
    ELSE bp

\* ChildNode.remove(), the live range following
removeLive(d, n) ==
    [h |-> remove(d.h, n),
     r |-> Range(BpAfterRemove(d.h, StartOf(d.r), n, d.h[n].parent, Index0(d.h, n)),
                 BpAfterRemove(d.h, EndOf(d.r), n, d.h[n].parent, Index0(d.h, n)))]

\* Range.insertNode(node) of a collapsed clone at bp of the live range: a text
\* container is split at the offset and the node put between the halves
insertNode(d, bp, node) ==
    IF d.h[bp.node].t = "text"
        THEN insertLive(splitTextLive(d, bp.node, bp.offset), d.h[bp.node].parent, node,
                        Len(d.h) + 1)
    ELSE insertLive(d, bp.node, node,
                    IF bp.offset < Len(d.h[bp.node].kids)
                        THEN d.h[bp.node].kids[bp.offset + 1] ELSE Null)

(***************************************************************************)
(* range-save-restore.ts, normalizeBoundaries of util/dom.ts               *)
(***************************************************************************)
\* const markerTextChar = '﻿'
markerTextChar == "U+FEFF"

\* a marker element without the data-editable attribute
createMarkerVisible(h, n) ==
    h \o << [t |-> "elem", name |-> "SPAN", data |-> <<>>, ed |-> "", wid |-> "",
             hl |-> "", id |-> n, parent |-> Null, kids |-> <<Len(h) + 2>>],
            [t |-> "text", name |-> "#text", data |-> <<markerTextChar>>, ed |-> "",
             wid |-> "", hl |-> "", id |-> 0, parent |-> Len(h) + 1, kids |-> <<>>] >>

\* the store with a marker element (node Len(h) + 1) and its text (Len(h) + 2):
\* <span id="editable-range-boundary-n" data-editable="remove">﻿</span>
createMarker(h, n) ==
    h \o << [t |-> "elem", name |-> "SPAN", data |-> <<>>, ed |-> "remove", wid |-> "",
             hl |-> "", id |-> n, parent |-> Null, kids |-> <<Len(h) + 2>>],
            [t |-> "text", name |-> "#text", data |-> <<markerTextChar>>, ed |-> "",
             wid |-> "", hl |-> "", id |-> 0, parent |-> Len(h) + 1, kids |-> <<>>] >>

\* Node.parentElement inside the host; the parent of the host is outside
parentElement(h, n) == IF n = Null THEN Null ELSE h[n].parent

previousSibling(h, n) ==
    IF h[n].parent = Null THEN Null
    ELSE IF Index0(h, n) = 0 THEN Null
    ELSE h[h[n].parent].kids[Index0(h, n)]

\* isSecondChildOfCommonAncestor(range, rangeContainer)
isSecondChildOfCommonAncestor(h, r, rangeContainer) ==
    IF h[commonAncestorContainer(h, r)].t = "text" THEN FALSE
    ELSE /\ parentElement(h, rangeContainer) # Null
         /\ parentElement(h, parentElement(h, rangeContainer)) = commonAncestorContainer(h, r)

\* insertRangeBoundaryMarker(range, atStart), n being the value of
\* ++boundaryMarkerId: the store and the live range after it; the marker
\* element is node Len(d.h) + 1
insertRangeBoundaryMarker(d, atStart, n) ==
    LET markerEl == Len(d.h) + 1
        d1 == [h |-> createMarker(d.h, n), r |-> d.r]
    IN IF atStart /\ isSecondChildOfCommonAncestor(d.h, d.r, d.r.sc)
           THEN insertLive(d1, parentElement(d.h, parentElement(d.h, d.r.sc)), markerEl,
                           parentElement(d.h, d.r.sc))
       ELSE IF ~atStart /\ isSecondChildOfCommonAncestor(d.h, d.r, d.r.ec)
           THEN insertLive(d1, parentElement(d.h, parentElement(d.h, d.r.ec)), markerEl,
                           nextSibling(d.h, parentElement(d.h, d.r.ec)))
       ELSE insertNode(d1, IF atStart THEN StartOf(d.r) ELSE EndOf(d.r), markerEl)

\* save(range) for a collapsed range, with the marker inserted (endEl)
saveCollapsed(d, endEl, n) ==
    [h |-> d.h,
     r |-> IF collapsed(d.r)
               THEN Range(Before(d.h, endEl), Before(d.h, endEl))
           ELSE setEnd(d.h, d.r, Before(d.h, endEl), TRUE),
     rangeInfo |-> [markerId |-> n, startMarkerId |-> 0, endMarkerId |-> 0,
                    collapsed |-> TRUE, restored |-> FALSE],
     boundaryMarkerId |-> n]

\* save(range) for a range that is not collapsed, with both markers inserted
saveSpan(d, endEl, startEl, n) ==
    [h |-> d.h,
     r |-> IF collapsed(d.r)
               THEN Range(Before(d.h, endEl), Before(d.h, endEl))
           ELSE setStart(d.h, setEnd(d.h, d.r, Before(d.h, endEl), TRUE),
                         After(d.h, startEl), TRUE),
     rangeInfo |-> [markerId |-> 0, startMarkerId |-> n, endMarkerId |-> n - 1,
                    collapsed |-> FALSE, restored |-> FALSE],
     boundaryMarkerId |-> n]

\* the second marker of save: d1 holds the end marker endEl, the start marker
\* becomes node Len(d1.h) + 1
saveStart(d1, endEl, n) ==
    saveSpan(insertRangeBoundaryMarker(d1, TRUE, n), endEl, Len(d1.h) + 1, n)

\* save(range): the store, the range as save leaves it, the RangeInfo returned
\* and the new value of boundaryMarkerId
save(d, boundaryMarkerId) ==
    IF collapsed(d.r)
        THEN saveCollapsed(insertRangeBoundaryMarker(d, FALSE, boundaryMarkerId + 1),
                           Len(d.h) + 1, boundaryMarkerId + 1)
    ELSE saveStart(insertRangeBoundaryMarker(d, FALSE, boundaryMarkerId + 1),
                   Len(d.h) + 1, boundaryMarkerId + 2)

\* getMarker(host, id): host.querySelector('#' + id), Null when there is none
getMarker(h, hostEl, n) ==
    LET HasId(k) == h[k].t = "elem" /\ h[k].id = n
        found == SelectSeq(Descendants(h, hostEl), HasId)
    IN IF found = <<>> THEN Null ELSE found[1]

\* setRangeBoundary that leaves the marker in the tree
setRangeBoundaryKeeping(d, hostEl, markerId, atStart, attached) ==
    LET markerEl == getMarker(d.h, hostEl, markerId)
    IN IF markerEl = Null THEN d
       ELSE [h |-> d.h,
             r |-> IF atStart THEN setStart(d.h, d.r, Before(d.h, markerEl), attached)
                   ELSE setEnd(d.h, d.r, Before(d.h, markerEl), attached)]

\* setRangeBoundary(host, range, markerId, atStart)
setRangeBoundary(d, hostEl, markerId, atStart, attached) ==
    LET markerEl == getMarker(d.h, hostEl, markerId)
    IN IF markerEl = Null THEN d
       ELSE removeLive([h |-> d.h,
                        r |-> IF atStart
                                  THEN setStart(d.h, d.r, Before(d.h, markerEl), attached)
                              ELSE setEnd(d.h, d.r, Before(d.h, markerEl), attached)],
                       markerEl)

\* Node.compareDocumentPosition reduced to the two tests of normalizeBoundaries:
\* other follows node and neither contains the other
Following(h, node, other) ==
    /\ node # DocumentNode /\ other # DocumentNode
    /\ node # other
    /\ node \notin InclusiveAncestors(h, other)
    /\ other \notin InclusiveAncestors(h, node)
    /\ CmpPaths(Append(Path(h, node), 0), Append(Path(h, other), 0), 1) = -1

\* normalizeBoundaries(range)
normalizeBoundaries(h, r, attached) ==
    LET r1 == IF Following(h, r.sc, r.ec)
                  THEN setStart(h, r, Before(h, r.ec), attached) ELSE r
    IN IF Following(h, r1.sc, r1.ec)
           THEN setEnd(h, r1, After(h, r1.sc), attached) ELSE r1

\* the collapsed branch without the test for a text node before the marker
restoreCollapsedBeforeMarker(d, hostEl, markerEl, attached) ==
    IF markerEl = Null THEN d
    ELSE removeLive([h |-> d.h, r |-> Range(Before(d.h, markerEl), Before(d.h, markerEl))],
                    markerEl)

\* the collapsed branch of restore
restoreCollapsed(d, hostEl, markerEl, attached) ==
    IF markerEl = Null THEN d
    ELSE IF previousSibling(d.h, markerEl) # Null
            /\ d.h[previousSibling(d.h, markerEl)].t = "text"
        THEN [h |-> remove(d.h, markerEl),
              r |-> setStart(d.h, d.r,
                             Bp(previousSibling(d.h, markerEl),
                                Len(d.h[previousSibling(d.h, markerEl)].data)),
                             attached)]
    ELSE removeLive([h |-> d.h, r |-> Range(Before(d.h, markerEl), Before(d.h, markerEl))],
                    markerEl)

\* the result of restore: the store, whether a range was returned, and the range
Restored(d, attached) ==
    [h |-> d.h, returned |-> TRUE, r |-> normalizeBoundaries(d.h, d.r, attached)]

\* restore(host, rangeInfo)
restore(h, hostEl, rangeInfo, attached) ==
    IF rangeInfo.restored THEN [h |-> h, returned |-> FALSE, r |-> createRange]
    ELSE IF rangeInfo.collapsed
        THEN IF rangeInfo.markerId = 0
                 THEN [h |-> h, returned |-> FALSE, r |-> createRange]
             ELSE Restored(restoreCollapsed([h |-> h, r |-> createRange], hostEl,
                                            getMarker(h, hostEl, rangeInfo.markerId),
                                            attached),
                           attached)
    ELSE IF rangeInfo.startMarkerId # 0 /\ rangeInfo.endMarkerId # 0
        THEN Restored(
                 setRangeBoundary(
                     setRangeBoundary([h |-> h, r |-> createRange], hostEl,
                                      rangeInfo.startMarkerId, TRUE, attached),
                     hostEl, rangeInfo.endMarkerId, FALSE, attached),
                 attached)
    ELSE [h |-> h, returned |-> FALSE, r |-> createRange]

\* the number of saves of a behaviour
MaxSaves == 1

\* the offset of a boundary point in the text extractText returns: the number of
\* characters of the text nodes the iterator visits that lie before it
CharOffset(h, bp) ==
    LET texts == textNodesUnder(h, HostId)
    IN Cardinality({ c \in UNION { {<<i, j>> : j \in 1..Len(h[texts[i]].data)} :
                                     i \in 1..Len(texts) } :
                       Cmp(h, Bp(texts[c[1]], c[2]), bp) <= 0 })

\* the boundary points of the store: every offset of every node below the host
\* that is not inside a removed subtree, and of the host
BoundaryPoints(h) ==
    LET it == textNodesUnder(h, HostId)
        Inside(n) == \A a \in InclusiveAncestors(h, n) : h[a].ed # "remove"
        nodes == {HostId} \cup { n \in 1..Len(h) : n # HostId /\ h[n].parent # Null /\ Inside(n) }
    IN UNION { { Bp(n, o) : o \in 0..(IF h[n].t = "text" THEN Len(h[n].data)
                                      ELSE Len(h[n].kids)) } : n \in nodes }

\* the ranges inside the host
Ranges(h) ==
    { Range(p[1], p[2]) : p \in { q \in BoundaryPoints(h) \X BoundaryPoints(h) :
                                    Cmp(h, q[1], q[2]) <= 0 } }

Em(kids) == Elem("EM", "", "", "", kids)

\* the hosts ranges are saved in
RangeHosts ==
    PlainHosts(MaxLen, 1) \cup { Div(<<Em(<<Txt(1, 1)>>), Em(<<Txt(2, MaxLen)>>)>>) }

\* the number of marker elements in a tree
RECURSIVE Anchors(_)
Anchors(tree) ==
    LET Sum[i \in 0..Len(tree.kids)] ==
            IF i = 0 THEN 0 ELSE Sum[i - 1] + Anchors(tree.kids[i])
    IN (IF tree.t = "elem" /\ tree.id # 0 THEN 1 ELSE 0) + Sum[Len(tree.kids)]

\* the ids of the marker elements of a tree, in document order
RECURSIVE AnchorIds(_)
AnchorIds(tree) ==
    LET Cat[i \in 0..Len(tree.kids)] ==
            IF i = 0 THEN <<>> ELSE Cat[i - 1] \o AnchorIds(tree.kids[i])
    IN (IF tree.t = "elem" /\ tree.id # 0 THEN <<tree.id>> ELSE <<>>) \o Cat[Len(tree.kids)]

\* a caller saves a range of the host: the first of a behaviour, or the next
\* after the restore of the one before
SaveRange ==
    /\ rs.pc = "idle" \/ (rs.pc = "restored" /\ rs.restores = 1 /\ ~rs.mutated /\ ~rs.edited)
    /\ rs.saves < MaxSaves
    /\ Anchors(host) = 0
    /\ \E h \in {Build(host)} :
         \E r \in Ranges(h) :
            \E saved \in {save([h |-> h, r |-> r], rs.boundaryMarkerId)} :
              /\ host' = ReadTree(saved.h, HostId)
              /\ rs' = [pc |-> "saved",
                        boundaryMarkerId |-> saved.boundaryMarkerId,
                        rangeInfo |-> saved.rangeInfo,
                        saves |-> rs.saves + 1,
                        restores |-> 0,
                        mutated |-> FALSE,
                        edited |-> FALSE,
                        wasCollapsed |-> collapsed(r),
                        given |-> [start |-> CharOffset(h, StartOf(r)),
                                   end |-> CharOffset(h, EndOf(r))],
                        before |-> host]
              /\ last' = [op |-> "save"]
    /\ UNCHANGED <<matches, bs, recent, mh, ev, ni>>

\* something between save and restore removes the marker element with id n
RemoveAnchor(n) ==
    /\ rs.pc = "saved"
    /\ \E h \in {Build(host)} :
         /\ getMarker(h, HostId, n) # Null
         /\ host' = ReadTree(remove(h, getMarker(h, HostId, n)), HostId)
    /\ rs' = [rs EXCEPT !.mutated = TRUE]
    /\ last' = [op |-> "removeAnchor"]
    /\ UNCHANGED <<matches, bs, recent, mh, ev, ni>>

\* an edit between the save and the restore of a cursor: the text node before
\* the marker with id n is cut to its first newLength characters, or removed
\* (newLength = -1)
EditBeforeAnchor(n, newLength) ==
    /\ rs.pc = "saved"
    /\ rs.rangeInfo.collapsed
    /\ ~rs.edited
    /\ \E h \in {Build(host)} :
         /\ getMarker(h, HostId, n) # Null
         /\ \E previousNode \in {previousSibling(h, getMarker(h, HostId, n))} :
              /\ previousNode # Null
              /\ h[previousNode].t = "text"
              /\ newLength < Len(h[previousNode].data)
              /\ host' = ReadTree(IF newLength = -1 THEN remove(h, previousNode)
                                  ELSE [h EXCEPT ![previousNode].data =
                                           SubSeq(@, 1, newLength)],
                                  HostId)
    /\ rs' = [rs EXCEPT !.edited = TRUE]
    /\ last' = [op |-> "edit"]
    /\ UNCHANGED <<matches, bs, recent, mh, ev, ni>>

\* a caller restores the RangeInfo it holds; the host is attached to the
\* document or not
RestoreRange(attached) ==
    /\ rs.pc \in {"saved", "restored"}
    /\ rs.restores < 2
    /\ \E res \in {restore(Build(host), HostId, rs.rangeInfo, attached)} :
         /\ host' = ReadTree(res.h, HostId)
         /\ last' = [op |-> "restore",
                     returned |-> res.returned,
                     outside |-> res.r.sc = DocumentNode \/ res.r.ec = DocumentNode,
                     start |-> CharOffset(res.h, StartOf(res.r)),
                     end |-> CharOffset(res.h, EndOf(res.r)),
                     range |-> res.r,
                     hostBefore |-> host]
    /\ rs' = [rs EXCEPT !.pc = "restored", !.restores = @ + 1]
    /\ UNCHANGED <<matches, bs, recent, mh, ev, ni>>

InitRS ==
    /\ ni = NoIterator
    /\ host \in RangeHosts
    /\ matches = <<>>
    /\ bs = NoSearch
    /\ last = NoOp
    /\ recent = <<>>
    /\ rs = [pc |-> "idle", boundaryMarkerId |-> 0, saves |-> 0, restores |-> 0,
             mutated |-> FALSE, edited |-> FALSE]
    /\ mh = NoTimers
    /\ ev = NoListeners

NextRS ==
    \/ SaveRange
    \/ \E n \in 1..(2 * MaxSaves) : RemoveAnchor(n)
    \/ \E n \in 1..(2 * MaxSaves), newLength \in -1..(MaxLen - 1) :
          EditBeforeAnchor(n, newLength)
    \/ \E attached \in BOOLEAN : RestoreRange(attached)

SpecRS == InitRS /\ [][NextRS]_vars

\* C13: restore right after save returns a range whose start and end have the
\* offsets in the extracted text that the start and end of the saved range had.
C13_SameOffsets ==
    (last.op = "restore" /\ rs.restores = 1 /\ ~rs.mutated /\ ~rs.edited)
    => /\ last.returned
       /\ last.start = rs.given.start
       /\ last.end = rs.given.end

\* C14: save puts one marker into the tree for a collapsed range and two for
\* any other, the end marker made first, their ids distinct and recorded in the
\* RangeInfo; after the restore that follows the host holds no marker and its
\* markup is the markup before save.
C14_AnchorsInsertedAndRemoved ==
    /\ (rs.pc = "saved" /\ ~rs.mutated /\ rs.wasCollapsed)
       => /\ rs.rangeInfo.collapsed
          /\ AnchorIds(host) = <<rs.rangeInfo.markerId>>
          /\ rs.rangeInfo.markerId # 0
    /\ (rs.pc = "saved" /\ ~rs.mutated /\ ~rs.wasCollapsed)
       => /\ ~rs.rangeInfo.collapsed
          /\ AnchorIds(host) = <<rs.rangeInfo.startMarkerId, rs.rangeInfo.endMarkerId>>
          /\ rs.rangeInfo.endMarkerId # 0
          /\ rs.rangeInfo.endMarkerId < rs.rangeInfo.startMarkerId
    /\ (last.op = "restore" /\ rs.restores = 1 /\ ~rs.mutated /\ ~rs.edited)
       => /\ Anchors(host) = 0
          /\ Markup(host) = Markup(rs.before)

\* a range from inside one inline element to inside the next, saved and restored
C14_Witness ==
    /\ last.op = "restore"
    /\ rs.restores = 1
    /\ ~rs.mutated
    /\ ~rs.edited
    /\ ~rs.wasCollapsed
    /\ rs.given = [start |-> 0, end |-> MaxLen]
    /\ Len(host.kids) = 2
    /\ host.kids[1].name = "EM"
    /\ Anchors(host) = 0

\* C15: extractText returns the same string before save, while the markers are
\* in the tree, and after restore; the character of the markers is not in it.
C15_AnchorsInvisible ==
    (rs.pc \in {"saved", "restored"} /\ ~rs.edited)
    => /\ extractText(Build(host), HostId, TRUE) = extractText(Build(rs.before), HostId, TRUE)
       /\ extractText(Build(host), HostId, FALSE) = extractText(Build(rs.before), HostId, FALSE)
       /\ \A i \in 1..Len(TextOf(host)) : TextOf(host)[i] # markerTextChar

\* two markers in the middle of a text
C15_Witness ==
    /\ rs.pc = "saved"
    /\ Anchors(host) = 2
    /\ rs.given = [start |-> 1, end |-> 2]
    /\ Len(host.kids) = 5

\* C16: restore with a marker of the RangeInfo gone from the host returns no
\* range.
C16_MissingAnchorFails ==
    (last.op = "restore" /\ rs.restores = 1 /\ rs.mutated)
    => (~last.returned /\ ~last.outside)

\* C17: a second restore of a RangeInfo that was restored returns no range and
\* leaves the host as it is.
C17_ConsumedOnce ==
    (last.op = "restore" /\ rs.restores = 2 /\ ~rs.mutated /\ ~rs.edited)
    => (~last.returned /\ host = last.hostBefore)

\* the offset, in the extracted text, of the marker with id n
MarkerOffset(tree, n) ==
    CharOffset(Build(tree), Before(Build(tree), getMarker(Build(tree), HostId, n)))

\* C27: after save the markers stand at the offsets of the boundaries of the
\* range given: the characters between them are those of the range, none more.
C27_SavedRangeDoesNotGrow ==
    (rs.pc = "saved" /\ ~rs.mutated /\ ~rs.edited)
    => IF rs.rangeInfo.collapsed
           THEN MarkerOffset(host, rs.rangeInfo.markerId) = rs.given.start
       ELSE /\ MarkerOffset(host, rs.rangeInfo.startMarkerId) = rs.given.start
            /\ MarkerOffset(host, rs.rangeInfo.endMarkerId) = rs.given.end

\* the range restore is to return for a collapsed RangeInfo whose marker is
\* in the store: at the end of the text node before the marker, or before the
\* marker
CollapsedTarget(h, markerEl) ==
    IF previousSibling(h, markerEl) # Null /\ h[previousSibling(h, markerEl)].t = "text"
        THEN Bp(previousSibling(h, markerEl), Len(h[previousSibling(h, markerEl)].data))
    ELSE Bp(h[markerEl].parent, Index0(h, markerEl))

\* C26: restore of a collapsed RangeInfo whose marker is in the host returns a
\* collapsed range inside the host: at the end of the text node before the
\* marker if there is one, else where the marker was; also after the text
\* before the marker was cut or removed.
C26_CollapsedRestore ==
    [][(/\ last'.op = "restore"
        /\ rs.pc = "saved"
        /\ rs.rangeInfo.collapsed
        /\ getMarker(Build(host), HostId, rs.rangeInfo.markerId) # Null)
       => /\ last'.returned
          /\ ~last'.outside
          /\ last'.range =
                 Range(CollapsedTarget(Build(host),
                                       getMarker(Build(host), HostId, rs.rangeInfo.markerId)),
                       CollapsedTarget(Build(host),
                                       getMarker(Build(host), HostId, rs.rangeInfo.markerId)))
          /\ Anchors(host') = 0]_vars

\* the text before the marker was cut to nothing, the range is at its end
C26_Witness ==
    /\ last.op = "restore"
    /\ last.returned
    /\ rs.restores = 1
    /\ rs.edited
    /\ ~rs.mutated
    /\ rs.rangeInfo.collapsed
    /\ last.range.sc # HostId
    /\ last.range.so = 0
    /\ rs.given.start > 0

\* the text before the marker was removed, the range is in the host element
C26_WitnessRemoved ==
    /\ last.op = "restore"
    /\ last.returned
    /\ rs.restores = 1
    /\ rs.edited
    /\ rs.rangeInfo.collapsed
    /\ last.range.sc = HostId

(***************************************************************************)
(* MonitoredHighlighting: the throttled refresh of the highlights.         *)
(* mh.timeout is this.timeout, mh.pending the timers the window holds      *)
(* (scheduled, not fired, not cleared), mh.checks the number of calls of   *)
(* highlight per host.                                                     *)
(***************************************************************************)

\* the number of editable hosts and of calls of editableHasChanged
MaxHosts == 2
MaxChanges == 4

EditableHosts == 1..MaxHosts

\* this.timeout = {}
EmptyTimeout == [id |-> 0, editableHost |-> 0]

\* clearTimeout(id)
clearTimeout(pending, id) == { t \in pending : t.id # id }

\* setTimeout(callback, throttle || 0): the window gives the next timer id
setTimeout(pending, id, editableHost) ==
    pending \cup {[id |-> id, editableHost |-> editableHost]}

\* editableHasChanged(editableHost, throttle)
editableHasChanged(m, editableHost) ==
    LET cleared == IF m.timeout.id # 0 /\ m.timeout.editableHost = editableHost
                       THEN clearTimeout(m.pending, m.timeout.id)
                   ELSE m.pending
    IN [m EXCEPT !.pending = setTimeout(cleared, m.nextId, editableHost),
                 !.nextId = m.nextId + 1,
                 !.timeout = [id |-> m.nextId, editableHost |-> editableHost]]

\* the callback given to setTimeout: highlight(editableHost); this.timeout = {}
timerFired(m, t) ==
    [m EXCEPT !.pending = m.pending \ {t},
              !.checks[t.editableHost] = @ + 1,
              !.timeout = EmptyTimeout]

\* a change (or a focus) of an editable host reaches editableHasChanged
EditableHasChanged(editableHost) ==
    /\ mh.pc = "monitoring"
    /\ mh.nextId <= MaxChanges
    /\ mh' = editableHasChanged(mh, editableHost)
    /\ last' = [op |-> "editableHasChanged", editableHost |-> editableHost,
                pendingBefore |-> mh.pending]
    /\ UNCHANGED <<matches, host, bs, recent, rs, ev, ni>>

\* the window runs the callback of a pending timer; timers of different
\* throttle (change: config.throttle, focus: 0) fire in any order
FireTimer ==
    /\ mh.pc = "monitoring"
    /\ \E t \in mh.pending :
         /\ mh' = timerFired(mh, t)
         /\ last' = [op |-> "timer", editableHost |-> t.editableHost,
                     pendingBefore |-> mh.pending]
    /\ UNCHANGED <<matches, host, bs, recent, rs, ev, ni>>

InitMH ==
    /\ ni = NoIterator
    /\ mh = [pc |-> "monitoring", timeout |-> EmptyTimeout, pending |-> {},
             nextId |-> 1, checks |-> [e \in EditableHosts |-> 0]]
    /\ matches = <<>>
    /\ host = NoHost
    /\ bs = NoSearch
    /\ last = NoOp
    /\ recent = <<>>
    /\ rs = NoSave
    /\ ev = NoListeners

NextMH ==
    \/ \E editableHost \in EditableHosts : EditableHasChanged(editableHost)
    \/ FireTimer

SpecMH == InitMH /\ [][NextMH]_vars

\* the pending timers of a host
PendingOf(editableHost) == { t \in mh.pending : t.editableHost = editableHost }

\* C18: whatever the order of the calls of editableHasChanged and of the
\* timers firing, no host has more than one pending timer.
C18_OnePendingTimerPerHost ==
    mh.pc = "monitoring"
    => \A editableHost \in EditableHosts : Cardinality(PendingOf(editableHost)) <= 1

(***************************************************************************)
(* eventable: on, off and notify of an object, and the switchContext the   *)
(* dispatcher keeps on it.  ev.listeners is the listeners record: per      *)
(* event the array of listeners.  ev.registered is a ghost: per event the  *)
(* listeners in the order their registrations were made.                   *)
(***************************************************************************)

\* the number of listener functions and of calls of on
MaxListeners == 2
MaxRegistrations == 2

Listeners == 1..MaxListeners

EventNames == {"switch", "cursor"}

\* the strings given to on: one event name, or two separated by a space
EventStrings == { <<e>> : e \in EventNames } \cup { <<a, b>> : a, b \in EventNames }

NoSwitchContext == [defined |-> FALSE, positionX |-> 0, events |-> <<>>]

\* listeners[event].push(listener)
addListenerLast(listeners, events, listener) ==
    [e \in DOMAIN listeners |->
        listeners[e] \o [i \in 1..Cardinality({k \in 1..Len(events) : events[k] = e})
                            |-> listener]]

\* addListener(events, listener): listeners[event].unshift(listener) for each
\* event of events.split(' ')
RECURSIVE addListener(_, _, _)
addListener(listeners, events, listener) ==
    IF events = <<>> THEN listeners
    ELSE addListener([listeners EXCEPT ![Head(events)] = <<listener>> \o @],
                     Tail(events), listener)

\* eventListeners.indexOf(listener), counted from 1; 0 if there is none
indexOf(eventListeners, listener) ==
    IF \E i \in 1..Len(eventListeners) : eventListeners[i] = listener
        THEN CHOOSE i \in 1..Len(eventListeners) :
                 /\ eventListeners[i] = listener
                 /\ \A j \in 1..(i - 1) : eventListeners[j] # listener
    ELSE 0

\* removeListener(event, listener)
removeListener(listeners, event, listener) ==
    IF indexOf(listeners[event], listener) = 0 THEN listeners
    ELSE [listeners EXCEPT ![event] = RemoveAt(@, indexOf(listeners[event], listener))]

\* eventListeners.every(listener => listener.apply(...) !== false): the
\* listeners called, given the set of listeners that return false
RECURSIVE every(_, _)
every(eventListeners, returnFalse) ==
    IF eventListeners = <<>> THEN <<>>
    ELSE IF Head(eventListeners) \in returnFalse THEN <<Head(eventListeners)>>
    ELSE <<Head(eventListeners)>> \o every(Tail(eventListeners), returnFalse)

\* notify: the switchContext after it
shiftSwitchContext(switchContext, actualEvent) ==
    IF ~switchContext.defined THEN switchContext
    ELSE IF switchContext.events # <<>> /\ Head(switchContext.events) = actualEvent
        THEN [switchContext EXCEPT !.events = Tail(@)]
    ELSE NoSwitchContext

\* notify(context, event, ...args): the objects after it and the listeners
\* called.  The switchContext it reads and clears is the one of `result`, the
\* object of the module whose methods were copied to obj
notify(e, actualEvent, returnFalse) ==
    [ev |-> [e EXCEPT !.result.switchContext = shiftSwitchContext(@, actualEvent)],
     called |-> every(e.listeners[actualEvent], returnFalse)]

\* obj.on(events, listener)
On(events, listener) ==
    /\ ev.pc = "ready"
    /\ ev.ons < MaxRegistrations
    /\ ev' = [ev EXCEPT !.listeners = addListener(@, events, listener),
                        !.registered = [e \in EventNames |->
                            @[e] \o [i \in 1..Cardinality({k \in 1..Len(events) :
                                                             events[k] = e}) |-> listener]],
                        !.ons = @ + 1]
    /\ last' = [op |-> "on"]
    /\ UNCHANGED <<matches, host, bs, recent, rs, mh, ni>>

\* the registrations without the newest one of a listener
RECURSIVE withoutNewest(_, _)
withoutNewest(registered, listener) ==
    IF registered = <<>> THEN <<>>
    ELSE IF registered[Len(registered)] = listener
        THEN SubSeq(registered, 1, Len(registered) - 1)
    ELSE Append(withoutNewest(SubSeq(registered, 1, Len(registered) - 1), listener),
                registered[Len(registered)])

\* obj.off(event, listener)
OffListener(event, listener) ==
    /\ ev.pc = "ready"
    /\ ev.listeners[event] # <<>>
    /\ ev' = [ev EXCEPT !.listeners = removeListener(@, event, listener),
                        !.registered[event] = withoutNewest(@, listener)]
    /\ last' = [op |-> "off"]
    /\ UNCHANGED <<matches, host, bs, recent, rs, mh, ni>>

\* obj.off(event)
OffEvent(event) ==
    /\ ev.pc = "ready"
    /\ ev.listeners[event] # <<>>
    /\ ev' = [ev EXCEPT !.listeners[event] = <<>>, !.registered[event] = <<>>]
    /\ last' = [op |-> "off"]
    /\ UNCHANGED <<matches, host, bs, recent, rs, mh, ni>>

\* obj.off()
OffAll ==
    /\ ev.pc = "ready"
    /\ \E e \in EventNames : ev.listeners[e] # <<>>
    /\ ev' = [ev EXCEPT !.listeners = [e \in EventNames |-> <<>>],
                        !.registered = [e \in EventNames |-> <<>>]]
    /\ last' = [op |-> "off"]
    /\ UNCHANGED <<matches, host, bs, recent, rs, mh, ni>>

\* obj.notify(event): each listener called returns false or something else
Notify(event, returnFalse) ==
    /\ ev.pc = "ready"
    /\ \E n \in {notify(ev, event, returnFalse)} :
         /\ ev' = n.ev
         /\ last' = [op |-> "notify", event |-> event, returnFalse |-> returnFalse,
                     called |-> n.called, by |-> "notify"]
    /\ UNCHANGED <<matches, host, bs, recent, rs, mh, ni>>

\* Dispatcher.dispatchSwitchEvent: the cursor position is stored with the
\* events expected next; at the first or last line 'switch' is notified
DispatchSwitchEvent(positionX, atEdge, returnFalse) ==
    /\ ev.pc = "ready"
    /\ \E stored \in {[defined |-> TRUE,
                       positionX |-> IF ev.switchContext.defined
                                         THEN ev.switchContext.positionX ELSE positionX,
                       events |-> IF atEdge THEN <<"switch", "blur", "focus", "cursor">>
                                  ELSE <<"cursor">>]} :
         IF atEdge
             THEN \E n \in {notify([ev EXCEPT !.switchContext = stored], "switch",
                                   returnFalse)} :
                    /\ ev' = n.ev
                    /\ last' = [op |-> "notify", event |-> "switch",
                                returnFalse |-> returnFalse, called |-> n.called,
                                by |-> "dispatchSwitchEvent"]
         ELSE /\ ev' = [ev EXCEPT !.switchContext = stored]
              /\ last' = [op |-> "dispatchSwitchEvent"]
    /\ UNCHANGED <<matches, host, bs, recent, rs, mh, ni>>

\* Editable.findClosestCursorOffset: the positionX it hands to
\* binaryCursorSearch
findClosestCursorOffset(e, origCoordinatesLeft) ==
    IF e.switchContext.defined THEN e.switchContext.positionX ELSE origCoordinatesLeft

\* a call of Editable.findClosestCursorOffset
FindClosestCursorOffset(origCoordinatesLeft) ==
    /\ ev.pc = "ready"
    /\ last.op # "findClosestCursorOffset"
    /\ last' = [op |-> "findClosestCursorOffset", left |-> origCoordinatesLeft,
                positionX |-> findClosestCursorOffset(ev, origCoordinatesLeft)]
    /\ UNCHANGED <<matches, host, bs, recent, rs, mh, ev, ni>>

\* ev.switchContext is the field of the dispatcher, ev.result the object of the
\* eventable module
InitEV ==
    /\ ni = NoIterator
    /\ ev = [pc |-> "ready",
             listeners |-> [e \in EventNames |-> <<>>],
             registered |-> [e \in EventNames |-> <<>>],
             switchContext |-> NoSwitchContext,
             result |-> [switchContext |-> NoSwitchContext],
             ons |-> 0]
    /\ matches = <<>>
    /\ host = NoHost
    /\ bs = NoSearch
    /\ last = NoOp
    /\ recent = <<>>
    /\ rs = NoSave
    /\ mh = NoTimers

NextEV ==
    \/ \E events \in EventStrings, listener \in Listeners : On(events, listener)
    \/ \E event \in EventNames, listener \in Listeners : OffListener(event, listener)
    \/ \E event \in EventNames : OffEvent(event)
    \/ OffAll
    \/ \E event \in EventNames, returnFalse \in SUBSET Listeners : Notify(event, returnFalse)
    \/ \E positionX \in {0, MaxX}, atEdge \in BOOLEAN, returnFalse \in SUBSET Listeners :
          DispatchSwitchEvent(positionX, atEdge, returnFalse)
    \/ \E origCoordinatesLeft \in {0, MaxX} : FindClosestCursorOffset(origCoordinatesLeft)

SpecEV == InitEV /\ [][NextEV]_vars

\* the registrations of a list, newest first
NewestFirst(registered) == [i \in 1..Len(registered) |-> registered[Len(registered) + 1 - i]]

\* the positions of a list of listeners up to the first that returns false
UpToFirstFalse(listeners, returnFalse) ==
    { i \in 1..Len(listeners) : \A j \in 1..(i - 1) : listeners[j] \notin returnFalse }

\* C19: notify calls the listeners registered for its event, the newest
\* registration first, up to and including the first that returns false, and
\* calls nothing else.
C19_NewestFirstUntilFalse ==
    last.op = "notify"
    => /\ DOMAIN last.called =
              UpToFirstFalse(NewestFirst(ev.registered[last.event]), last.returnFalse)
       /\ \A i \in DOMAIN last.called :
              last.called[i] = NewestFirst(ev.registered[last.event])[i]

\* two listeners on one event and one on the other; the newer of the two
\* returns false and is the only one called
C19_Witness ==
    /\ last.op = "notify"
    /\ Len(ev.registered[last.event]) = 2
    /\ ev.registered[last.event][1] # ev.registered[last.event][2]
    /\ \E e \in EventNames : e # last.event /\ ev.registered[e] # <<>>
    /\ last.called = <<ev.registered[last.event][2]>>

\* both listeners of an event called, the newer first
C19_WitnessBoth ==
    /\ last.op = "notify"
    /\ Len(ev.registered[last.event]) = 2
    /\ ev.registered[last.event][1] # ev.registered[last.event][2]
    /\ Len(last.called) = 2

\* C30: while the dispatcher holds a switchContext, a notify of the event it
\* expects next takes that event from its list, and a notify of any other event
\* clears it.
C30_ConsumedOrCleared ==
    [][(/\ last'.op = "notify"
        /\ last'.by = "notify"
        /\ ev.switchContext.defined)
       => ev'.switchContext = shiftSwitchContext(ev.switchContext, last'.event)]_vars

\* C30, second part: when the last notify was of an event the stored
\* switchContext did not expect, findClosestCursorOffset searches at the
\* coordinate of its caller.
C30_CallerCoordinateAfterInterruption ==
    [][(/\ last.op = "notify"
        /\ last.by = "notify"
        /\ ev.switchContext.defined
        /\ ev.switchContext.events = <<"cursor">>
        /\ last.event = "switch"
        /\ last'.op = "findClosestCursorOffset")
       => last'.positionX = last'.left]_vars

(***************************************************************************)
(* A walk of a NodeIterator, call by call.  ni.h is the node store the     *)
(* iterator walks (node identities stay the same from call to call),       *)
(* ni.it the iterator, ni.returned the nodes getNext has returned,         *)
(* ni.undefs the number of times it returned undefined, ni.replacements    *)
(* the nodes given to replaceCurrent.                                      *)
(***************************************************************************)

\* the hosts walked: the root of the iterator is any node of them
WalkHosts == PlainHosts(MaxLen, 1) \cup OtherHosts(MaxLen, 1)

\* new NodeIterator(root) on a node of the host
NewIterator(root) ==
    /\ ni.pc = "idle"
    /\ root \in 1..Len(Build(host))
    /\ ni' = [pc |-> "walking", h |-> Build(host), it |-> NodeIterator(root),
              returned |-> <<>>, undefs |-> 0, replacements |-> <<>>]
    /\ last' = [op |-> "NodeIterator"]
    /\ UNCHANGED <<matches, host, bs, recent, rs, mh, ev>>

\* iterator.getNext()
GetNext ==
    /\ ni.pc = "walking"
    /\ ni.undefs < 2
    /\ \E it \in {getNext(ni.h, ni.it)} :
         /\ ni' = [ni EXCEPT !.it = it,
                             !.returned = IF it.current = Null THEN @
                                          ELSE Append(@, it.current),
                             !.undefs = IF it.current = Null THEN @ + 1 ELSE @]
         /\ last' = [op |-> "getNext", node |-> it.current,
                     afterReplace |-> last.op = "replaceCurrent",
                     replacement |-> IF last.op = "replaceCurrent"
                                         THEN last.replacement ELSE Null]
    /\ UNCHANGED <<matches, host, bs, recent, rs, mh, ev>>

\* the text node getNext just returned gets a part of its text wrapped, as
\* highlightMatches does when a match ends in it, and the iterator is told
ReplaceCurrent(offset, length) ==
    /\ ni.pc = "walking"
    /\ last.op = "getNext"
    /\ ni.it.current # Null
    /\ ni.it.current # ni.it.root
    /\ ni.h[ni.it.current].t = "text"
    /\ length >= 1
    /\ offset + length <= Len(ni.h[ni.it.current].data)
    /\ \E w \in {wrapPortion(ni.h, [element |-> ni.it.current, offset |-> offset,
                                    length |-> length, wordId |-> "w"],
                             Stencil("spellcheck"))} :
         /\ ni' = [ni EXCEPT !.h = w.h,
                             !.it = replaceCurrent(w.h, ni.it, w.node),
                             !.replacements = Append(@, w.node)]
         /\ host' = ReadTree(w.h, HostId)
         /\ last' = [op |-> "replaceCurrent", replacement |-> w.node]
    /\ UNCHANGED <<matches, bs, recent, rs, mh, ev>>

InitNI ==
    /\ host \in WalkHosts
    /\ ni = NoIterator
    /\ matches = <<>>
    /\ bs = NoSearch
    /\ last = NoOp
    /\ recent = <<>>
    /\ rs = NoSave
    /\ mh = NoTimers
    /\ ev = NoListeners

NextNI ==
    \/ \E root \in 1..(2 * MaxLen + 2) : NewIterator(root)
    \/ GetNext
    \/ \E offset \in 0..MaxLen, length \in 1..MaxLen : ReplaceCurrent(offset, length)

SpecNI == InitNI /\ [][NextNI]_vars

RECURSIVE PreOrder(_, _, _)
\* the nodes of the subtree of n, parents before children, children in their
\* order; with `skip` the children of a data-editable="remove" element are left out
PreOrder(h, n, skip) ==
    LET Cat[i \in 0..Len(h[n].kids)] ==
            IF i = 0 THEN <<>> ELSE Cat[i - 1] \o PreOrder(h, h[n].kids[i], skip)
    IN <<n>> \o (IF skip /\ h[n].ed = "remove" THEN <<>> ELSE Cat[Len(h[n].kids)])

IsPrefix(a, b) == Len(a) <= Len(b) /\ SubSeq(b, 1, Len(a)) = a

\* C22: without replaceCurrent, the calls of getNext return the root, then the
\* nodes of its subtree in pre-order without the descendants of elements marked
\* data-editable="remove", then undefined; nothing outside the subtree.
C22_PreOrderOfSubtree ==
    (ni.pc = "walking" /\ ni.replacements = <<>>)
    => /\ IsPrefix(ni.returned, PreOrder(ni.h, ni.it.root, TRUE))
       /\ ni.undefs > 0 => ni.returned = PreOrder(ni.h, ni.it.root, TRUE)

\* a walk to its end of a root that has a following sibling and a child
C22_Witness ==
    /\ ni.pc = "walking"
    /\ ni.replacements = <<>>
    /\ ni.undefs = 2
    /\ nextSibling(ni.h, ni.it.root) # Null
    /\ Len(ni.returned) >= 2

\* a walk to its end over a subtree marked data-editable="remove"
C22_WitnessSkipped ==
    /\ ni.pc = "walking"
    /\ ni.replacements = <<>>
    /\ ni.undefs = 2
    /\ ni.it.root = HostId
    /\ Len(ni.returned) < Len(PreOrder(ni.h, HostId, FALSE))

\* the first node after the subtree of n in the pre-order of the root's subtree
FollowingSubtree(h, n, root) ==
    LET order == PreOrder(h, root, FALSE)
        inside == { order[i] : i \in { j \in 1..Len(order) :
                                         order[j] \in { x \in 1..Len(h) :
                                             \E k \in 1..Len(PreOrder(h, n, FALSE)) :
                                                 PreOrder(h, n, FALSE)[k] = x } } }
        after == { i \in 1..Len(order) :
                     /\ order[i] \notin inside
                     /\ \E j \in 1..(i - 1) : order[j] = n }
    IN IF after = {} THEN Null
       ELSE order[CHOOSE i \in after : \A j \in after : i <= j]

\* C23: the getNext after a replaceCurrent returns the first node after the
\* subtree of the replacement inside the root, or undefined; no descendant of a
\* replacement is returned, and no node is returned twice.
C23_ContinuesAfterReplacement ==
    ni.pc = "walking"
    => /\ (last.op = "getNext" /\ last.afterReplace)
          => last.node = FollowingSubtree(ni.h, last.replacement, ni.it.root)
       /\ \A i, j \in 1..Len(ni.returned) : ni.returned[i] = ni.returned[j] => i = j
       /\ \A i \in 1..Len(ni.returned), k \in 1..Len(ni.replacements) :
              \A m \in 2..Len(PreOrder(ni.h, ni.replacements[k], FALSE)) :
                  ni.returned[i] # PreOrder(ni.h, ni.replacements[k], FALSE)[m]

\* the middle of a text wrapped: the walk goes on with the text behind the wrapper
C23_Witness ==
    /\ ni.pc = "walking"
    /\ last.op = "getNext"
    /\ last.afterReplace
    /\ last.node # Null
    /\ ni.h[last.node].t = "text"
    /\ ni.h[last.node].data # <<>>
    /\ previousSibling(ni.h, last.node) = last.replacement

(***************************************************************************)
(* monitored-highlighting.ts: highlight(editableHost), the refresh of the  *)
(* spellcheck and whitespace highlights.  The spellcheck service answers   *)
(* later; the host may be edited or removed from the document meanwhile.   *)
(***************************************************************************)
\* a special whitespace character (a non-breaking space)
Nbsp == "_"

\* the word stands in the text at the offset (counted from 0)
StartsAt(text, word, i) ==
    /\ word # <<>>
    /\ i + Len(word) <= Len(text)
    /\ SubSeq(text, i + 1, i + Len(word)) = word

RECURSIVE searchFrom(_, _, _, _)
\* the matches of a global search for any of the words, from offset i on: the
\* first word of the list that stands at an offset is taken, and the search goes
\* on behind it
searchFrom(text, words, marker, i) ==
    IF i >= Len(text) THEN <<>>
    ELSE LET Here(w) == StartsAt(text, w, i)
             hit == SelectSeq(words, Here)
         IN IF hit = <<>> THEN searchFrom(text, words, marker, i + 1)
            ELSE <<[startIndex |-> i, endIndex |-> i + Len(hit[1]), match |-> hit[1],
                    marker |-> marker, id |-> ""]>>
                 \o searchFrom(text, words, marker, i + Len(hit[1]))

\* text-search.searchAllWords
searchAllWords(text, words, marker) == searchFrom(text, words, marker, 0)

\* WhitespaceHighlighting.findMatches (no matches stands for undefined as well)
findMatches(text) == searchFrom(text, << <<Nbsp>> >>, "whitespace", 0)

\* domArray('[data-highlight="spellcheck"], [data-highlight="whitespace"]', host)
querySelectorAllHighlights(h, n) ==
    LET Tagged(k) == h[k].t = "elem" /\ h[k].hl \in {"spellcheck", "whitespace"}
    IN SelectSeq(Descendants(h, n), Tagged)

\* MonitoredHighlighting.removeHighlights
removeHighlights(h, editableHost) ==
    unwrapAll(h, querySelectorAllHighlights(h, editableHost))

\* MonitoredHighlighting.highlightMatches
monitoredHighlightMatches(h, editableHost, ms) ==
    IF Len(ms) > 0
        THEN highlightMatches(removeHighlights(h, editableHost), editableHost, ms, TRUE)
    ELSE removeHighlights(h, editableHost)

\* the matches the callback collects from a text
collectMatches(text, misspelledWords) ==
    addMatches(addMatches(<<>>, IF Len(misspelledWords) > 0
                                    THEN searchAllWords(text, misspelledWords, "spellcheck")
                                    ELSE <<>>),
               findMatches(text))

\* the callback that highlights what the request text held
highlightCallbackStale(h, editableHost, textBefore, misspelledWords, isConnected) ==
    IF ~isConnected THEN [h |-> h, matches |-> <<>>]
    ELSE [h |-> monitoredHighlightMatches(h, editableHost,
                                          collectMatches(textBefore, misspelledWords)),
          matches |-> collectMatches(textBefore, misspelledWords)]

\* the callback highlight() hands to spellcheckService.check; textBefore is the
\* text the request was made with
highlightCallback(h, editableHost, textBefore, misspelledWords, isConnected) ==
    IF ~isConnected THEN [h |-> h, matches |-> <<>>]
    ELSE [h |-> monitoredHighlightMatches(
                    h, editableHost,
                    collectMatches(extractText(h, editableHost, TRUE), misspelledWords)),
          matches |-> collectMatches(extractText(h, editableHost, TRUE), misspelledWords)]

\* the words of a text: runs of its characters without whitespace
Words == { SubSeq(Chars, i, j) : i \in 1..MaxLen, j \in 1..MaxLen } \ {<<>>}

\* what the service may answer: no word, or up to two words
WordLists == {<<>>} \cup { <<w>> : w \in Words } \cup { <<w, v>> : w \in Words, v \in Words }

\* hosts with a special whitespace, with a highlight of another type, and with
\* the wrappers an earlier refresh left
RefreshHosts ==
    UNION { PlainHosts(MaxLen, k) \cup WrappedHosts(MaxLen, k)
                \cup { Div(<<Txt(1, k), TextNode(<<Nbsp>>), Txt(k + 1, MaxLen)>>),
                       Div(<<TextNode(SubSeq(Chars, 1, k) \o <<Nbsp>>),
                             Elem("SPAN", "ui-unwrap", "Z", "comment", <<Txt(k + 1, MaxLen)>>)>>),
                       Div(<<Elem("SPAN", "ui-unwrap", "0", "spellcheck", <<Txt(1, k)>>),
                             Txt(k + 1, MaxLen)>>),
                       Div(<<Elem("SPAN", "ui-unwrap", "Z", "comment",
                                  <<Txt(1, k),
                                    Elem("SPAN", "ui-unwrap", String(k), "spellcheck",
                                         <<Txt(k + 1, MaxLen)>>)>>),
                             Elem("SPAN", "ui-unwrap", String(MaxLen), "whitespace",
                                  <<TextNode(<<Nbsp>>)>>)>>) }
            : k \in 1..(MaxLen - 1) }
    \cup { Div(<<>>) }

\* no request is pending; `refreshed` tells that highlight() has been called,
\* `edited` that the host was edited since
NoRequest == [pc |-> "idle", textBefore |-> <<>>, isConnected |-> TRUE, edited |-> FALSE,
              refreshed |-> FALSE]

\* the callback runs: last keeps what it was given and what it applied
RunCallback(textBefore, misspelledWords, isConnected) ==
    \E res \in {highlightCallback(Build(host), HostId, textBefore, misspelledWords,
                                  isConnected)} :
        /\ host' = ReadTree(res.h, HostId)
        /\ last' = [op |-> "callback", textBefore |-> textBefore,
                    misspelledWords |-> misspelledWords, isConnected |-> isConnected,
                    matches |-> res.matches]

\* highlight(editableHost), called once for a host: the text goes to
\* the service; for an empty text SpellcheckService.check calls back at once,
\* without words
RequestHighlight ==
    /\ mh.pc = "idle"
    /\ ~mh.refreshed
    /\ \E textBefore \in {extractText(Build(host), HostId, TRUE)} :
           IF textBefore = <<>>
               THEN /\ RunCallback(textBefore, <<>>, mh.isConnected)
                    /\ mh' = [mh EXCEPT !.refreshed = TRUE]
           ELSE /\ mh' = [mh EXCEPT !.pc = "waiting", !.textBefore = textBefore,
                                    !.refreshed = TRUE]
                /\ last' = [op |-> "highlight"]
                /\ UNCHANGED host
    /\ UNCHANGED <<matches, bs, recent, rs, ev, ni>>

\* while the service is asked, the user edits the n-th node of the host, a
\* text: its first character is deleted, or a character is typed before it
EditHost(n, typed) ==
    /\ mh.pc = "waiting"
    /\ ~mh.edited
    /\ \E h \in {Build(host)} :
           /\ n \in 1..Len(h)
           /\ h[n].t = "text"
           /\ h[n].data # <<>>
           /\ host' = ReadTree([h EXCEPT ![n].data = IF typed THEN <<Chars[MaxLen]>> \o @
                                                     ELSE Tail(@)], HostId)
    /\ mh' = [mh EXCEPT !.edited = TRUE]
    /\ last' = [op |-> "edit"]
    /\ UNCHANGED <<matches, bs, recent, rs, ev, ni>>

\* while the service is asked, the host is taken out of the document
DisconnectHost ==
    /\ mh.pc = "waiting"
    /\ mh.isConnected
    /\ mh' = [mh EXCEPT !.isConnected = FALSE]
    /\ last' = [op |-> "disconnect"]
    /\ UNCHANGED <<matches, host, bs, recent, rs, ev, ni>>

\* the service answers the request with the misspelled words of its text (an
\* empty list reaches the callback as no list)
SpellcheckAnswers(misspelledWords) ==
    /\ mh.pc = "waiting"
    /\ \A i \in 1..Len(misspelledWords) :
           \E o \in 0..Len(mh.textBefore) : StartsAt(mh.textBefore, misspelledWords[i], o)
    /\ RunCallback(mh.textBefore, misspelledWords, mh.isConnected)
    /\ mh' = [mh EXCEPT !.pc = "idle"]
    /\ UNCHANGED <<matches, bs, recent, rs, ev, ni>>

InitRF ==
    /\ host \in RefreshHosts
    /\ mh = NoRequest
    /\ ni = NoIterator
    /\ matches = <<>>
    /\ bs = NoSearch
    /\ last = NoOp
    /\ recent = <<>>
    /\ rs = NoSave
    /\ ev = NoListeners

NextRF ==
    \/ RequestHighlight
    \/ \E n \in 1..(2 * MaxLen + 4), typed \in BOOLEAN : EditHost(n, typed)
    \/ DisconnectHost
    \/ \E misspelledWords \in WordLists : SpellcheckAnswers(misspelledWords)

SpecRF == InitRF /\ [][NextRF]_vars

RECURSIVE InsideType(_, _, _)
\* for every character of the text of a tree (a line break counted), whether it
\* is inside an element of the highlight type
InsideType(tree, type, under) ==
    IF tree.t = "text" THEN [i \in 1..Len(tree.data) |-> under]
    ELSE IF tree.name = "BR" THEN <<under>>
    ELSE IF tree.ed = "remove" THEN <<>>
    ELSE LET Cat[i \in 0..Len(tree.kids)] ==
                 IF i = 0 THEN <<>>
                 ELSE Cat[i - 1] \o InsideType(tree.kids[i], type, under \/ tree.hl = type)
         IN Cat[Len(tree.kids)]

\* the offsets of the characters inside an element of the highlight type
CoveredByType(tree, type) ==
    { i - 1 : i \in { j \in 1..Len(InsideType(tree, type, FALSE)) :
                        InsideType(tree, type, FALSE)[j] } }

\* the offsets of the matches of a highlight type
OffsetsOf(ms, type) ==
    UNION { ms[i].startIndex..(ms[i].endIndex - 1) :
                i \in { j \in 1..Len(ms) : ms[j].marker = type } }

\* C28: when the callback of highlight() runs and the host is not connected,
\* the host stays as it is.  When it is connected, every match it applies is a
\* misspelled word or a special whitespace standing at the offsets of the match
\* in the text the host has at that time; afterwards the characters inside
\* spellcheck and whitespace wrappers are exactly those at the offsets of the
\* applied matches, and the wrappers of other highlight types hold the text
\* they held.
C28_RefreshFromCurrentText ==
    [][(last'.op = "callback")
       => /\ ~last'.isConnected => host' = host
          /\ last'.isConnected =>
                /\ \A i \in 1..Len(last'.matches) :
                       /\ StartsAt(TextOf(host), last'.matches[i].match,
                                   last'.matches[i].startIndex)
                       /\ last'.matches[i].endIndex =
                              last'.matches[i].startIndex + Len(last'.matches[i].match)
                       /\ \/ /\ last'.matches[i].marker = "spellcheck"
                             /\ \E j \in 1..Len(last'.misspelledWords) :
                                    last'.misspelledWords[j] = last'.matches[i].match
                          \/ /\ last'.matches[i].marker = "whitespace"
                             /\ last'.matches[i].match = <<Nbsp>>
                /\ \A type \in {"spellcheck", "whitespace"} :
                       CoveredByType(host', type) = OffsetsOf(last'.matches, type)
                /\ CoveredByType(host', "comment") = CoveredByType(host, "comment")
                /\ Len(Wrappers(host', "comment")) = Len(Wrappers(host, "comment"))
                /\ TextOf(host') = TextOf(host)]_vars

\* the host was edited after the request, and the callback wrapped a word
C28_Witness ==
    /\ last.op = "callback"
    /\ last.isConnected
    /\ last.textBefore # TextOf(host)
    /\ Wrappers(host, "spellcheck") # <<>>

\* the host was removed after the request and the callback left its wrappers
C28_WitnessDisconnected ==
    /\ last.op = "callback"
    /\ ~last.isConnected
    /\ last.misspelledWords # <<>>
    /\ Wrappers(host, "spellcheck") # <<>>

(***************************************************************************)
(* highlight-support.ts highlightText and core.ts Editable.highlight,      *)
(* called without a textRange: the text is searched in the host            *)
(***************************************************************************)
\* text-search.searchText: all occurrences of the text
searchText(blockText, text, marker) == searchFrom(blockText, <<text>>, marker, 0)

\* highlightSupport.highlightText; ret is the start of the first match, or
\* Undefined
highlightTextOf(h, editableHost, text, highlightId, type) ==
    IF hasHighlight(h, editableHost, highlightId) THEN [h |-> h, ret |-> Undefined]
    ELSE LET found == searchText(extractText(h, editableHost, TRUE), text, type)
             ms == [i \in 1..Len(found) |->
                       IF i = 1 /\ highlightId # "" THEN [found[i] EXCEPT !.id = highlightId]
                       ELSE found[i]]
         IN IF Len(ms) > 0
                THEN [h |-> highlightMatches(h, editableHost, ms, TRUE),
                      ret |-> Num(ms[1].startIndex)]
            ELSE [h |-> h, ret |-> Undefined]

\* Editable.highlight without a textRange: `result || -1`
EditableHighlightText(h, editableHost, text, highlightId, type) ==
    LET result == highlightTextOf(h, editableHost, text, highlightId, type)
    IN [h |-> result.h,
        ret |-> IF result.ret = Undefined \/ result.ret.v = 0 THEN -1 ELSE result.ret.v]

\* the offsets at which the text stands in the text of the host
Occurrences(tree, text) ==
    { o \in 0..Len(TextOf(tree)) : StartsAt(TextOf(tree), text, o) }

\* the least number of a non-empty set of numbers
Least(S) == CHOOSE x \in S : \A y \in S : x <= y

\* a call of Editable.highlight with a text; last keeps what was returned,
\* whether the host got a wrapper, and where the text first stood
HighlightText(id, text) ==
    \E r \in {EditableHighlightText(Build(host), HostId, text, id, "comment")} :
        /\ host' = ReadTree(r.h, HostId)
        /\ last' = [op |-> "highlightText", id |-> id, kind |-> "", ret |-> r.ret,
                    threw |-> FALSE, orig |-> NoHost,
                    created |-> Len(Wrappers(ReadTree(r.h, HostId), "comment"))
                                    > Len(Wrappers(host, "comment")),
                    first |-> IF Occurrences(host, text) = {} THEN -1
                              ELSE Least(Occurrences(host, text))]
        /\ UNCHANGED <<matches, bs, recent, rs, mh, ev, ni>>

\* texts to look for: the words of the host, and one it does not hold
SearchTexts == Words \cup {<<Chars[MaxLen + 1]>>}

InitHT ==
    /\ host \in UNION { PlainHosts(MaxLen, k) \cup OtherHosts(MaxLen, k)
                            \cup WrappedHosts(MaxLen, k) : k \in 1..(MaxLen - 1) }
    /\ ni = NoIterator
    /\ matches = <<>>
    /\ bs = NoSearch
    /\ last = NoOp
    /\ recent = [id \in HighlightIds |-> NoRange]
    /\ rs = NoSave
    /\ mh = NoTimers
    /\ ev = NoListeners

NextHT ==
    \/ \E id \in HighlightIds, text \in SearchTexts : HighlightText(id, text)
    \/ \E id \in HighlightIds : RemoveHighlight(id)

SpecHT == InitHT /\ [][NextHT]_vars

\* C29: Editable.highlight without a textRange returns -1 exactly when no
\* wrapper was created, and the start of the first occurrence of the text
\* whenever one was created, offset 0 included.
C29_StartIndexOrMinusOne ==
    (last.op = "highlightText")
        => /\ (last.ret = -1) <=> ~last.created
           /\ last.created => last.ret = last.first

\* C29, unless the text stands at offset 0: then -1 is returned as well
C29_UnlessAtOffsetZero ==
    (last.op = "highlightText" /\ last.first # 0)
        => /\ (last.ret = -1) <=> ~last.created
           /\ last.created => last.ret = last.first

\* a highlight applied at offset 0 and answered with -1
C29_WitnessAtZero ==
    /\ last.op = "highlightText"
    /\ last.created
    /\ last.first = 0
    /\ last.ret = -1

=============================================================================
